---- MODULE Spec2Model ----
(***************************************************************************)
(* Wand backend: the stream classifier of cli.py (main), the agent loop of *)
(* llm_processor.py (LLMProcessor.process) and the tool registry of        *)
(* tools.py (ToolRegistry, execute_tool), with its tools create_tool and   *)
(* get_workspace_content_index.                                            *)
(*                                                                         *)
(* Text is a sequence of one-character strings.  A fragment printed by     *)
(* print_chunk is such a sequence; the fixed HTML literals the classifier  *)
(* prints are one-element sequences holding the literal's name.            *)
(***************************************************************************)
EXTENDS Integers, Sequences, FiniteSets, TLC

VARIABLES
    text,         \* the full response text the stream delivers
    pos,          \* number of characters of text already delivered
    nDeltas,      \* number of deltas delivered so far
    cuts,         \* lengths of the deltas delivered so far
    state,        \* cli.py: state
    buffer,       \* cli.py: buffer
    code_buffer,  \* cli.py: code_buffer
    out,          \* the chunks printed so far (print_chunk), in order
    pc,           \* "feeding" | "flushed"
    script,       \* the model: the responses it gives, turn after turn
    messages,     \* llm_processor.py: messages (after the system prompt)
    current_turn, \* llm_processor.py: current_turn
    stream,       \* deltas of the current model call not yet consumed
    full_response,\* llm_processor.py: full_response
    yielded,      \* chunks the generator has yielded to its caller
    calls,        \* number of chat_completion_stream calls made
    execs,        \* tool executions: <<turn, tool name>>
    apc,          \* "loop" | "streaming" | "done" | "limit"
    registry,     \* ToolRegistry._registry: name -> Tool or NoTool
    called,       \* the last execute_tool call: its name and the tool it found
    ran,          \* the functions that call ran
    result,       \* what that call returned
    last_registered, \* per name, the function and level of the latest register_tool call
    attempt,      \* tools.py create_tool: attempt
    last_error,   \* tools.py create_tool: last_error
    tools_tmp,    \* the code blocks appended to the file TOOLS_TMP_FILE
    workspace,    \* the files os.walk finds under the workspace, in its order
    index_file,   \* the index stored in .wand/workspace_index.json
    llm_config,   \* whether LLM_CONFIG is set
    old_index,    \* get_workspace_content_index: old_index
    new_index,    \* get_workspace_content_index: new_index
    files_to_process, \* get_workspace_content_index: files_to_process
    futures,      \* the futures of the executor, in the order submitted
    completed,    \* the futures as_completed has handed to the calling thread
    updated_count,\* get_workspace_content_index: updated_count
    model_calls   \* the files chat_completion was called for, in call order

clsFrame == <<text, pos, nDeltas, cuts, state, buffer, code_buffer, out>>
clsVars == <<text, pos, nDeltas, cuts, state, buffer, code_buffer, out, pc>>
agentVars == <<script, messages, current_turn, stream, full_response,
               yielded, calls, execs, apc>>
indexVars == <<workspace, index_file, llm_config, old_index, new_index,
               files_to_process, futures, completed, updated_count, model_calls>>
\* the state of the tools that call the model
synthVars == <<attempt, last_error, tools_tmp, indexVars>>
toolVars == <<registry, called, ran, result, last_registered, synthVars>>
vars == <<clsVars, agentVars, toolVars>>

----------------------------------------------------------------------------
(* Python str operations on sequences of characters *)

Min(S) == CHOOSE x \in S : \A y \in S : x <= y
Max(S) == CHOOSE x \in S : \A y \in S : x >= y

\* s.find(m) + 1: the first position of m in s, 0 when m is not in s
Find(s, m) ==
    LET hits == {i \in 1..(Len(s) - Len(m) + 1) : SubSeq(s, i, i + Len(m) - 1) = m}
    IN IF hits = {} THEN 0 ELSE Min(hits)

\* m in s
Contains(s, m) == Find(s, m) # 0

\* s.split(m, 1)[0] and s.split(m, 1)[1], for m in s
SplitPre(s, m) == SubSeq(s, 1, Find(s, m) - 1)
SplitPost(s, m) == SubSeq(s, Find(s, m) + Len(m), Len(s))

\* s.rfind(c) + 1: the last position of character c in s, 0 when absent
RFind(s, c) ==
    LET hits == {i \in 1..Len(s) : s[i] = c}
    IN IF hits = {} THEN 0 ELSE Max(hits)

Whitespace == {" ", "\n", "\t"}

\* s.strip()
Strip(s) ==
    LET solid == {i \in 1..Len(s) : s[i] \notin Whitespace}
    IN IF solid = {} THEN <<>> ELSE SubSeq(s, Min(solid), Max(solid))

\* s.split('\n'), as the set of its lines
Lines(s) ==
    LET nl == {i \in 1..Len(s) : s[i] = "\n"}
        starts == {0} \cup nl
        stop(a) == Min({b \in nl \cup {Len(s) + 1} : b > a})
    IN {SubSeq(s, a + 1, stop(a) - 1) : a \in starts}

\* line.strip() and not line.strip().startswith('#')
IsRealLine(line) == Strip(line) # <<>> /\ Strip(line)[1] # "#"

\* the loop over code.split('\n') that looks for a non-comment line
HasRealCode(code) == \E line \in Lines(code) : IsRealLine(line)

----------------------------------------------------------------------------
(* cli.py main: the stream classifier *)

\* the backtick character (a TLA+ string cannot hold one)
Tick == "tick"

\* the markers the classifier scans for
ThinkingOpen == <<"<", "t", "h", "i", "n", "k", "i", "n", "g", ">">>
ThinkingClose == <<"<", "/", "t", "h", "i", "n", "k", "i", "n", "g", ">">>
ActionOpen == <<"<", "a", "c", "t", "i", "o", "n", ">">>
ActionClose == <<"<", "/", "a", "c", "t", "i", "o", "n", ">">>
FenceOpen == <<Tick, Tick, Tick, "p", "y", "t", "h", "o", "n", ":", "i", "n", "t", "e", "r", "p", "r", "e", "t", "e", "r">>
Fence == <<Tick, Tick, Tick>>

\* the fixed HTML literals printed at region boundaries
ThinkingStartHtml == <<"<details><summary>THINKING</summary>">>
ThinkingEndHtml == <<"</div></details>">>
CodeStartHtml == <<"<details open><summary>CODE</summary><pre><code>">>
CodeEndHtml == <<"</code></pre></details>">>
MarkerHtml == {ThinkingStartHtml, ThinkingEndHtml, CodeStartHtml, CodeEndHtml}

\* the empty-list artifacts filtered at the end of an action region
EmptyList == <<"[", "]">>
TickedEmptyList == <<Tick, "[", "]", Tick>>

FlushThreshold == 20
ForceFlushThreshold == 100
ThinkingMargin == 20
ActionMargin == 25

\* print_chunk(text)
PrintChunk(c, chunk) == [c EXCEPT !.out = Append(@, chunk)]

\* print_chunk(pre) without the "if pre:" test
PrintUnguarded(c, chunk) == PrintChunk(c, chunk)

\* if pre: print_chunk(pre)
PrintIf(c, chunk) == IF chunk # <<>> THEN PrintChunk(c, chunk) ELSE c

Again(c) == [c EXCEPT !.again = TRUE]
Break(c) == [c EXCEPT !.again = FALSE]

\* the "Flush buffer if safe" step of state NORMAL
NormalFlush(c) ==
    IF Len(c.buffer) > FlushThreshold /\ ~Contains(c.buffer, <<"<">>)
    THEN [PrintChunk(c, c.buffer) EXCEPT !.buffer = <<>>]
    ELSE IF Len(c.buffer) > ForceFlushThreshold
    THEN [PrintChunk(c, c.buffer) EXCEPT !.buffer = <<>>]
    ELSE c

\* a NORMAL pass that enters THINKING and leaves the opening marker in the buffer
NormalStepKeepsMarker(c) ==
    IF Contains(c.buffer, ThinkingOpen)
    THEN Again([PrintChunk(PrintIf(c, SplitPre(c.buffer, ThinkingOpen)), ThinkingStartHtml)
                 EXCEPT !.state = "THINKING",
                        !.buffer = ThinkingOpen \o SplitPost(c.buffer, ThinkingOpen)])
    ELSE IF Contains(c.buffer, ActionOpen)
    THEN Again([PrintIf(c, SplitPre(c.buffer, ActionOpen))
                 EXCEPT !.state = "ACTION",
                        !.buffer = SplitPost(c.buffer, ActionOpen)])
    ELSE IF Contains(c.buffer, FenceOpen)
    THEN Again([PrintIf(c, SplitPre(c.buffer, FenceOpen))
                 EXCEPT !.state = "CHECKING_CODE",
                        !.buffer = SplitPost(c.buffer, FenceOpen),
                        !.code_buffer = <<>>])
    ELSE Break(NormalFlush(c))

\* one pass of the while loop in state NORMAL
NormalStep(c) ==
    IF Contains(c.buffer, ThinkingOpen)
    THEN Again([PrintChunk(PrintIf(c, SplitPre(c.buffer, ThinkingOpen)), ThinkingStartHtml)
                 EXCEPT !.state = "THINKING",
                        !.buffer = SplitPost(c.buffer, ThinkingOpen)])
    ELSE IF Contains(c.buffer, ActionOpen)
    THEN Again([PrintIf(c, SplitPre(c.buffer, ActionOpen))
                 EXCEPT !.state = "ACTION",
                        !.buffer = SplitPost(c.buffer, ActionOpen)])
    ELSE IF Contains(c.buffer, FenceOpen)
    THEN Again([PrintIf(c, SplitPre(c.buffer, FenceOpen))
                 EXCEPT !.state = "CHECKING_CODE",
                        !.buffer = SplitPost(c.buffer, FenceOpen),
                        !.code_buffer = <<>>])
    ELSE Break(NormalFlush(c))

\* a flush of THINKING that holds nothing back
ThinkingFlushAll(c) == [PrintChunk(c, c.buffer) EXCEPT !.buffer = <<>>]

\* the "Safe flush" step of state THINKING
ThinkingFlush(c) ==
    LET last_open == RFind(c.buffer, "<")
    IN IF last_open # 0 /\ Len(c.buffer) - (last_open - 1) < ThinkingMargin
       THEN [PrintIf(c, SubSeq(c.buffer, 1, last_open - 1))
              EXCEPT !.buffer = SubSeq(c.buffer, last_open, Len(c.buffer))]
       ELSE [PrintChunk(c, c.buffer) EXCEPT !.buffer = <<>>]

\* one pass of the while loop in state THINKING
ThinkingStep(c) ==
    IF Contains(c.buffer, ThinkingClose)
    THEN Again([PrintChunk(PrintIf(c, SplitPre(c.buffer, ThinkingClose)), ThinkingEndHtml)
                 EXCEPT !.state = "NORMAL",
                        !.buffer = SplitPost(c.buffer, ThinkingClose)])
    ELSE IF Contains(c.buffer, ActionOpen)
    THEN Again([PrintChunk(PrintIf(c, SplitPre(c.buffer, ActionOpen)), ThinkingEndHtml)
                 EXCEPT !.state = "ACTION",
                        !.buffer = SplitPost(c.buffer, ActionOpen)])
    ELSE IF Contains(c.buffer, Fence)
    THEN Again([PrintChunk(PrintIf(c, SplitPre(c.buffer, Fence)), ThinkingEndHtml)
                 EXCEPT !.state = "NORMAL",
                        !.buffer = Fence \o SplitPost(c.buffer, Fence)])
    ELSE Break(ThinkingFlush(c))

\* the "[]" filter applied to the interior left when </action> is found
ActionClosePrint(c, pre) ==
    IF pre # <<>> /\ Strip(pre) # EmptyList /\ Strip(pre) # TickedEmptyList
    THEN PrintChunk(c, pre)
    ELSE c

\* the "Safe flush" step of state ACTION
ActionFlush(c) ==
    LET last_tag == RFind(c.buffer, "<")
        last_tick == RFind(c.buffer, Tick)
        last_open == IF last_tag > last_tick THEN last_tag ELSE last_tick
    IN IF last_open # 0 /\ Len(c.buffer) - (last_open - 1) < ActionMargin
       THEN [PrintIf(c, SubSeq(c.buffer, 1, last_open - 1))
              EXCEPT !.buffer = SubSeq(c.buffer, last_open, Len(c.buffer))]
       ELSE [PrintChunk(c, c.buffer) EXCEPT !.buffer = <<>>]

\* one pass of the while loop in state ACTION
ActionStep(c) ==
    IF Contains(c.buffer, FenceOpen)
    THEN Again([PrintIf(c, SplitPre(c.buffer, FenceOpen))
                 EXCEPT !.state = "CHECKING_CODE",
                        !.buffer = SplitPost(c.buffer, FenceOpen),
                        !.code_buffer = <<>>])
    ELSE IF Contains(c.buffer, ActionClose)
    THEN Again([ActionClosePrint(c, SplitPre(c.buffer, ActionClose))
                 EXCEPT !.state = "NORMAL",
                        !.buffer = SplitPost(c.buffer, ActionClose)])
    ELSE Break(ActionFlush(c))

\* is_effectively_empty of the code collected when the closing fence is found
IsEffectivelyEmpty(full_code) ==
    IF Strip(full_code) # <<>> THEN ~HasRealCode(full_code) ELSE TRUE

\* CHECKING_CODE, closing fence in the buffer
CheckingClose(c) ==
    LET full_code == c.code_buffer \o SplitPre(c.buffer, Fence)
        shown == IF ~IsEffectivelyEmpty(full_code)
                 THEN PrintChunk(PrintChunk(PrintChunk(c, CodeStartHtml), full_code),
                                 CodeEndHtml)
                 ELSE c
    IN [shown EXCEPT !.state = "ACTION",
                     !.buffer = SplitPost(c.buffer, Fence),
                     !.code_buffer = <<>>]

\* a collection that goes on whatever the lines collected are
CheckingCollectAll(c) ==
    Break([c EXCEPT !.buffer = <<>>, !.code_buffer = c.code_buffer \o c.buffer])

\* an early exit from CHECKING_CODE that prints the header only when the block
\* is closed
CheckingCollectNoHeader(c) ==
    LET collected == c.code_buffer \o c.buffer
    IN IF HasRealCode(collected)
       THEN Again([PrintChunk(c, collected)
                    EXCEPT !.state = "EXECUTING",
                           !.buffer = <<>>,
                           !.code_buffer = <<>>])
       ELSE Break([c EXCEPT !.buffer = <<>>, !.code_buffer = collected])

\* CHECKING_CODE, no closing fence in the buffer yet
CheckingCollect(c) ==
    LET collected == c.code_buffer \o c.buffer
    IN IF HasRealCode(collected)
       THEN Again([PrintChunk(PrintChunk(c, CodeStartHtml), collected)
                    EXCEPT !.state = "EXECUTING",
                           !.buffer = <<>>,
                           !.code_buffer = <<>>])
       ELSE Break([c EXCEPT !.buffer = <<>>, !.code_buffer = collected])

\* one pass of the while loop in state CHECKING_CODE
CheckingStep(c) ==
    IF Contains(c.buffer, Fence) THEN Again(CheckingClose(c)) ELSE CheckingCollect(c)

\* an EXECUTING pass whose closing fence returns to NORMAL
ExecutingStepToNormal(c) ==
    IF Contains(c.buffer, Fence)
    THEN Again([PrintChunk(PrintIf(c, SplitPre(c.buffer, Fence)), CodeEndHtml)
                 EXCEPT !.state = "NORMAL",
                        !.buffer = SplitPost(c.buffer, Fence)])
    ELSE Break([PrintChunk(c, c.buffer) EXCEPT !.buffer = <<>>])

\* one pass of the while loop in state EXECUTING
ExecutingStep(c) ==
    IF Contains(c.buffer, Fence)
    THEN Again([PrintChunk(PrintIf(c, SplitPre(c.buffer, Fence)), CodeEndHtml)
                 EXCEPT !.state = "ACTION",
                        !.buffer = SplitPost(c.buffer, Fence)])
    ELSE Break([PrintChunk(c, c.buffer) EXCEPT !.buffer = <<>>])

\* one pass of the while loop
Step(c) ==
    CASE c.state = "NORMAL" -> NormalStep(c)
      [] c.state = "THINKING" -> ThinkingStep(c)
      [] c.state = "ACTION" -> ActionStep(c)
      [] c.state = "CHECKING_CODE" -> CheckingStep(c)
      [] c.state = "EXECUTING" -> ExecutingStep(c)

\* while True: ... continue / break
RECURSIVE Loop(_)
Loop(c) == LET r == Step(c) IN IF r.again THEN Loop(r) ELSE r

\* the body of "for chunk in stream" for one non-empty delta
ProcessDelta(c, content) == Loop([c EXCEPT !.buffer = @ \o content])

\* a stream end that prints nothing
FlushRemainingDropped(c) == c

\* "Flush remaining buffer" after the stream has ended
FlushRemaining(c) == PrintIf(c, c.buffer)

\* the classifier after "state = NORMAL", before the first delta
InitialClassifier ==
    [state |-> "NORMAL", buffer |-> <<>>, code_buffer |-> <<>>, out |-> <<>>,
     again |-> FALSE]

----------------------------------------------------------------------------
(* tools.py: Tool, ToolRegistry, register_tool, execute_tool *)

P5 == 5
P9 == 9

NoTool == [absent |-> TRUE]
NoCall == [absent |-> TRUE]

\* ToolRegistry.__init__
EmptyRegistry == [n \in {} |-> NoTool]

\* Tool.__init__ as register_tool calls it: name and description from the function
NewTool(f, level) ==
    [name |-> f.name, description |-> f.doc, func |-> f,
     permission_level |-> level, is_visible |-> TRUE]

\* a register that keeps the tool a name already has
RegistryRegisterFirstWins(reg, tool) ==
    [n \in DOMAIN reg \cup {tool.name} |-> IF n \in DOMAIN reg THEN reg[n] ELSE tool]

\* a register that keeps the visibility flag a name already has
RegistryRegisterKeepsFlag(reg, tool) ==
    [n \in DOMAIN reg \cup {tool.name} |->
        IF n # tool.name THEN reg[n]
        ELSE IF n \in DOMAIN reg THEN [tool EXCEPT !.is_visible = reg[n].is_visible]
        ELSE tool]

\* ToolRegistry.register
RegistryRegister(reg, tool) ==
    [n \in DOMAIN reg \cup {tool.name} |-> IF n = tool.name THEN tool ELSE reg[n]]

\* ToolRegistry.get_tool
GetTool(reg, name) == IF name \in DOMAIN reg THEN reg[name] ELSE NoTool

\* ToolRegistry.get_visible_tools
GetVisibleTools(reg) ==
    [n \in {m \in DOMAIN reg : reg[m].is_visible} |-> reg[n]]

\* a set_visibility that hides a tool by taking it out of the registry
RegistrySetVisibilityRemoving(reg, name, is_visible) ==
    IF name \in DOMAIN reg
    THEN IF is_visible
         THEN [reg EXCEPT ![name] = [@ EXCEPT !.is_visible = TRUE]]
         ELSE [n \in DOMAIN reg \ {name} |-> reg[n]]
    ELSE reg

\* ToolRegistry.set_visibility
RegistrySetVisibility(reg, name, is_visible) ==
    IF name \in DOMAIN reg
    THEN [reg EXCEPT ![name] = [@ EXCEPT !.is_visible = is_visible]]
    ELSE reg

\* ToolRegistry.set_all_visible
RegistrySetAllVisible(reg) == [n \in DOMAIN reg |-> [reg[n] EXCEPT !.is_visible = TRUE]]

\* the texts execute_tool returns
NotFoundText(name) == <<"not_found", name>>
ErrorText(name) == <<"error_executing_tool", name>>
ValueOf(f) == <<"value", f.name>>

\* execute_tool without its try/except: the exception of the function leaves it
ExecuteToolUncaught(reg, name) ==
    LET tool == GetTool(reg, name)
    IN IF tool # NoTool
       THEN [ran |-> <<tool.func>>,
             value |-> IF tool.func.raises THEN <<"raised", name>> ELSE ValueOf(tool.func)]
       ELSE [ran |-> <<>>, value |-> NotFoundText(name)]

\* execute_tool(_tool_name, **kwargs): the functions it runs and what it returns
ExecuteTool(reg, name) ==
    LET tool == GetTool(reg, name)
    IN IF tool # NoTool
       THEN [ran |-> <<tool.func>>,
             value |-> IF tool.func.raises THEN ErrorText(name) ELSE ValueOf(tool.func)]
       ELSE [ran |-> <<>>, value |-> NotFoundText(name)]

----------------------------------------------------------------------------
(* The responses streamed to the classifier *)

Prose == <<"a", "b">>
LongProse == [i \in 1..(FlushThreshold + 1) |-> "x"]
Plan == <<"p", "l", "a", "n">>
CommentLine == <<"#", "c", "\n">>
CodeLine == <<"x", "\n">>
Newline == <<"\n">>

\* the example of the design's testable properties
HelloText == <<"H", "e", "l", "l", "o", " ">> \o ThinkingOpen \o Plan \o ThinkingClose \o <<" ", "w", "o", "r", "l", "d">>
HelloDeltas == <<<<"H", "e", "l", "l", "o", " ", "<", "t", "h", "i">>, <<"n", "k", "i", "n", "g", ">", "p", "l", "a", "n">>, ThinkingClose \o <<" ", "w", "o", "r", "l", "d">>>>

Leads == {<<>>, Prose, LongProse}
Tails == {<<>>, Prose}
Bodies ==
    { <<>>,
      ThinkingOpen \o Plan \o ThinkingClose,
      ThinkingOpen \o Plan \o ActionOpen \o Prose \o ActionClose,
      ThinkingOpen \o Plan \o ActionOpen \o Prose \o ThinkingClose,
      ThinkingOpen \o Plan \o Fence \o Prose,
      ThinkingOpen \o Plan \o <<"<">> \o LongProse \o ThinkingClose,
      ActionOpen \o Prose \o ActionClose,
      ActionOpen \o EmptyList \o ActionClose,
      ActionOpen \o <<" ">> \o TickedEmptyList \o Newline \o ActionClose,
      FenceOpen \o Fence,
      FenceOpen \o Newline \o CommentLine \o Fence,
      FenceOpen \o Newline \o CommentLine,
      FenceOpen \o Newline \o CodeLine \o Fence,
      ActionOpen \o FenceOpen \o Newline \o CommentLine \o CodeLine \o Fence \o ActionClose }
\* a "<" that starts no marker, followed by text up to the forced flush
OverlongText == <<"<">> \o [i \in 1..ForceFlushThreshold |-> "x"]
Texts ==
    ({lead \o body \o tail : lead \in Leads, body \in Bodies, tail \in Tails} \ {<<>>})
        \cup {OverlongText}

\* the most deltas one response is cut into
MaxDeltas == 2
ScenarioDeltas == 3

Classifier == [state |-> state, buffer |-> buffer, code_buffer |-> code_buffer,
               out |-> out, again |-> FALSE]

AgentIdle ==
    /\ script = <<>> /\ messages = <<>> /\ current_turn = 0 /\ stream = <<>>
    /\ full_response = <<>> /\ yielded = <<>> /\ calls = 0 /\ execs = <<>>
    /\ apc = "idle"

IndexIdle ==
    /\ workspace = <<>> /\ index_file = <<>> /\ llm_config = FALSE
    /\ old_index = <<>> /\ new_index = <<>> /\ files_to_process = <<>>
    /\ futures = <<>> /\ completed = {} /\ updated_count = 0 /\ model_calls = <<>>
SynthIdle == attempt = 0 /\ last_error = "None" /\ tools_tmp = <<>> /\ IndexIdle
ToolsIdle ==
    /\ registry = EmptyRegistry /\ called = NoCall /\ ran = <<>> /\ result = <<>>
    /\ last_registered = EmptyRegistry
    /\ SynthIdle

InitClassifier(texts) ==
    /\ text \in texts
    /\ pos = 0 /\ nDeltas = 0 /\ cuts = <<>>
    /\ state = InitialClassifier.state
    /\ buffer = InitialClassifier.buffer
    /\ code_buffer = InitialClassifier.code_buffer
    /\ out = InitialClassifier.out
    /\ pc = "feeding"
    /\ AgentIdle /\ ToolsIdle

\* for chunk in stream: the next delta holds the next k characters of the text
Feed(limit, k) ==
    /\ pc = "feeding"
    /\ nDeltas < limit
    /\ k \in 1..(Len(text) - pos)
    /\ (nDeltas = limit - 1) => (k = Len(text) - pos)
    /\ LET c == ProcessDelta(Classifier, SubSeq(text, pos + 1, pos + k))
       IN /\ state' = c.state
          /\ buffer' = c.buffer
          /\ code_buffer' = c.code_buffer
          /\ out' = c.out
    /\ pos' = pos + k
    /\ nDeltas' = nDeltas + 1
    /\ cuts' = Append(cuts, k)
    /\ UNCHANGED <<text, pc, agentVars, toolVars>>

\* the stream is exhausted: flush what the buffer still holds
EndOfStream ==
    /\ pc = "feeding"
    /\ pos = Len(text)
    /\ out' = FlushRemaining(Classifier).out
    /\ pc' = "flushed"
    /\ UNCHANGED <<text, pos, nDeltas, cuts, state, buffer, code_buffer,
                   agentVars, toolVars>>

Init == InitClassifier(Texts)
Next == (\E k \in 1..Len(text) : Feed(MaxDeltas, k)) \/ EndOfStream
Spec == Init /\ [][Next]_vars

\* text that looks like markup and opens no region: closing markers, a bare
\* fence, openers cut short or misspelt, a lone "<" or backtick
NearMarkers ==
    { <<"<">>, <<Tick>>, ThinkingClose, ActionClose, Fence,
      Fence \o <<"p", "y", "t", "h", "o", "n">>,
      SubSeq(FenceOpen, 1, Len(FenceOpen) - 1),
      SubSeq(ThinkingOpen, 1, Len(ThinkingOpen) - 1),
      SubSeq(ActionOpen, 1, Len(ActionOpen) - 1) \o <<" ", ">">>,
      <<"<", "T">> \o SubSeq(ThinkingOpen, 3, Len(ThinkingOpen)) }
HasOpener(t) ==
    Contains(t, ThinkingOpen) \/ Contains(t, ActionOpen) \/ Contains(t, FenceOpen)
ProseTexts ==
    {t \in {lead \o near \o tail : lead \in Leads, near \in NearMarkers \cup {Prose},
                                  tail \in Tails \cup {LongProse}} \cup {OverlongText} :
        ~HasOpener(t)}
InitProse == InitClassifier(ProseTexts)
SpecProse == InitProse /\ [][Next]_vars

InitScenario == InitClassifier({HelloText})
NextScenario == (\E k \in 1..Len(text) : Feed(ScenarioDeltas, k)) \/ EndOfStream
SpecScenario == InitScenario /\ [][NextScenario]_vars

----------------------------------------------------------------------------
(* Properties of the stream classifier *)

\* the concatenation of the chunks of frags that are not HTML literals
RECURSIVE Payload(_)
Payload(frags) ==
    IF frags = <<>> THEN <<>>
    ELSE (IF Head(frags) \in MarkerHtml THEN <<>> ELSE Head(frags)) \o Payload(Tail(frags))

\* what the classifier prints when the whole text arrives as one delta
WholeOutput(t) == FlushRemaining(ProcessDelta(InitialClassifier, t)).out

Occurrences(frags, f) == Cardinality({i \in 1..Len(frags) : frags[i] = f})

EndsWith(s, p) == Len(s) >= Len(p) /\ SubSeq(s, Len(s) - Len(p) + 1, Len(s)) = p

\* C1: chunk-boundary invariance: once the stream has ended and the buffer is
\* flushed, the concatenated payload of the printed chunks is the one printed
\* for the same text delivered as a single delta, whatever the deltas were.
C1_ChunkBoundaryInvariance ==
    pc = "flushed" => Payload(out) = Payload(WholeOutput(text))

\* the lengths of the deltas of the example, and the chunks it must print
HelloCuts == [i \in 1..Len(HelloDeltas) |-> Len(HelloDeltas[i])]
HelloFragments ==
    <<SubSeq(HelloText, 1, 6), ThinkingStartHtml, Plan, ThinkingEndHtml,
      SubSeq(HelloText, Len(HelloText) - 5, Len(HelloText))>>

\* C2: the deltas "Hello <thi", "nking>plan", "</thinking> world", then the
\* end of the stream, print exactly TEXT("Hello "), THINKING_START,
\* TEXT("plan"), THINKING_END, TEXT(" world"): nothing more, nothing empty.
C2_HelloScenario ==
    (pc = "flushed" /\ text = HelloText /\ cuts = HelloCuts) => out = HelloFragments
C2_Witness ==
    /\ pc = "flushed" /\ text = HelloText /\ cuts = HelloCuts
    /\ HelloDeltas[1] \o HelloDeltas[2] \o HelloDeltas[3] = HelloText
    /\ Len(out) = 5

\* the texts whose action region holds only an empty-list artifact
ArtifactInteriors == {EmptyList, <<" ">> \o TickedEmptyList \o Newline}
ArtifactTexts ==
    {lead \o ActionOpen \o i \o ActionClose \o tail :
        lead \in Leads, i \in ArtifactInteriors, tail \in Tails}
ArtifactChars == {"[", "]", Tick}

\* C3: empty-artifact suppression: when the interior of an action region,
\* trimmed, is "[]" or the ticked "[]", no printed chunk carries a character
\* of the artifact, whatever the deltas were.
C3_EmptyArtifactSuppressed ==
    text \in ArtifactTexts =>
        \A i \in 1..Len(out) : \A j \in 1..Len(out[i]) : out[i][j] \notin ArtifactChars

\* the texts holding one fenced block of blank and comment lines only
CommentOnlyTexts ==
    {lead \o FenceOpen \o code \o Fence \o tail :
        lead \in Leads, code \in {<<>>, Newline \o CommentLine}, tail \in Tails}

\* C4: empty-code suppression: a fenced block of blank and '#' lines only never
\* makes the classifier print CODE_START or CODE_END, whatever the deltas were.
C4_EmptyCodeSuppressed ==
    text \in CommentOnlyTexts =>
        Occurrences(out, CodeStartHtml) = 0 /\ Occurrences(out, CodeEndHtml) = 0

\* the texts holding one fenced block with a line of real code
RealCodeTexts ==
    {lead \o FenceOpen \o Newline \o CodeLine \o Fence \o tail :
        lead \in Leads, tail \in Tails}
    \cup {lead \o ActionOpen \o FenceOpen \o Newline \o CommentLine \o CodeLine
               \o Fence \o ActionClose \o tail : lead \in Leads, tail \in Tails}

\* C5: a fenced block with a real line of code, once its closing fence has been
\* fed, has printed exactly one CODE_START and, after it, exactly one CODE_END.
C5_RealCodeShownOnce ==
    (text \in RealCodeTexts /\ pos = Len(text)) =>
        /\ Occurrences(out, CodeStartHtml) = 1
        /\ Occurrences(out, CodeEndHtml) = 1
        /\ \A i, j \in 1..Len(out) :
              (out[i] = CodeStartHtml /\ out[j] = CodeEndHtml) => i < j

\* the markers each state scans the buffer for
Scanned(st) ==
    CASE st = "NORMAL" -> {ThinkingOpen, ActionOpen, FenceOpen}
      [] st = "THINKING" -> {ThinkingClose, ActionOpen, Fence}
      [] st = "ACTION" -> {ActionClose, FenceOpen}
      [] st = "CHECKING_CODE" -> {Fence}
      [] st = "EXECUTING" -> {Fence}

\* marker m lies across the current delta boundary with its first j characters
\* delivered and the rest still to come
Straddles(m, j) ==
    /\ j <= pos
    /\ pos - j + Len(m) <= Len(text)
    /\ SubSeq(text, pos - j + 1, pos - j + Len(m)) = m

\* C6: no marker is split: when a marker the current state scans for lies across
\* a delta boundary, the part delivered so far has not been printed but is
\* still held, so the next delta completes the marker.
C6_MarkerNeverSplit ==
    pc = "feeding" =>
        \A m \in Scanned(state) : \A j \in 1..(Len(m) - 1) :
            Straddles(m, j) => EndsWith(code_buffer \o buffer, SubSeq(m, 1, j))

----------------------------------------------------------------------------
(* The registry driven by its callers *)

ToolNames == {"read_file", "list_files"}
UnknownName == "no_such_tool"
Docs == {"", "doc"}
Levels == {P5, P9}

\* the functions handed to register_tool: __name__, __doc__, and whether the
\* body raises when it is run
Funcs == [name : ToolNames, doc : Docs, raises : BOOLEAN]

InitTools ==
    /\ registry = EmptyRegistry
    /\ last_registered = EmptyRegistry
    /\ SynthIdle
    /\ called = NoCall /\ ran = <<>> /\ result = <<>>
    /\ text = <<>> /\ pos = 0 /\ nDeltas = 0 /\ cuts = <<>>
    /\ state = "NORMAL" /\ buffer = <<>> /\ code_buffer = <<>> /\ out = <<>>
    /\ pc = "idle"
    /\ AgentIdle

\* the record of the latest register_tool call per name, after one more call
NoteRegistration(noted, f, level) ==
    [n \in DOMAIN noted \cup {f.name} |->
        IF n = f.name THEN [func |-> f, level |-> level] ELSE noted[n]]

\* @register_tool(permission_level=level) applied to f
RegisterTool(f, level) ==
    /\ registry' = RegistryRegister(registry, NewTool(f, level))
    /\ last_registered' = NoteRegistration(last_registered, f, level)
    /\ UNCHANGED <<called, ran, result, synthVars, clsVars, agentVars>>

\* P10Config.TOOLS.set_visibility(name, is_visible)
SetVisibility(name, is_visible) ==
    /\ registry' = RegistrySetVisibility(registry, name, is_visible)
    /\ UNCHANGED <<called, ran, result, last_registered, synthVars, clsVars, agentVars>>

\* P10Config.TOOLS.set_all_visible()
SetAllVisible ==
    /\ registry' = RegistrySetAllVisible(registry)
    /\ UNCHANGED <<called, ran, result, last_registered, synthVars, clsVars, agentVars>>

\* execute_tool(name)
CallExecuteTool(name) ==
    /\ called' = [name |-> name, tool |-> GetTool(registry, name)]
    /\ ran' = ExecuteTool(registry, name).ran
    /\ result' = ExecuteTool(registry, name).value
    /\ UNCHANGED <<registry, last_registered, synthVars, clsVars, agentVars>>

NextTools ==
    \/ \E f \in Funcs, level \in Levels : RegisterTool(f, level)
    \/ \E name \in ToolNames \cup {UnknownName}, v \in BOOLEAN : SetVisibility(name, v)
    \/ SetAllVisible
    \/ \E name \in ToolNames \cup {UnknownName} : CallExecuteTool(name)
SpecTools == InitTools /\ [][NextTools]_vars

\* C10: execute_tool called with a name that is not registered, or that is
\* registered with is_visible false, runs no function and returns the
\* not-found text.
C10_HiddenOrUnknownNotRun ==
    (called # NoCall /\ (called.tool = NoTool \/ ~called.tool.is_visible)) =>
        (ran = <<>> /\ result = NotFoundText(called.name))

----------------------------------------------------------------------------
(* llm_processor.py: LLMProcessor.process *)

\* A response is a sequence of deltas.  The content of a delta is a pair of
\* strings: the tool tags, the "FUNCTION: name" line, the "ARGS: json" text,
\* prose, or the empty string.
TagOpen == <<"<tool>", "">>
TagClose == <<"</tool>", "">>
FunctionLine(name) == <<"FUNCTION:", name>>
ArgsText(json) == <<"ARGS:", json>>
ProseDelta == <<"prose", "">>
EmptyDelta == <<"", "">>

max_turns == 10

Indices(seq, x) == {i \in 1..Len(seq) : seq[i] = x}

\* the match of a pattern that does not ask for the closing tag, r"<tool>(.*)"
ToolCallMatchUnclosed(full) ==
    IF Indices(full, TagOpen) = {} THEN <<0, 0>>
    ELSE <<Min(Indices(full, TagOpen)), Len(full) + 1>>

\* the match of the greedy pattern r"<tool>(.*)</tool>"
ToolCallMatchGreedy(full) ==
    IF Indices(full, TagOpen) = {} THEN <<0, 0>>
    ELSE LET open == Min(Indices(full, TagOpen))
             closes == {j \in Indices(full, TagClose) : j > open}
         IN IF closes = {} THEN <<0, 0>> ELSE <<open, Max(closes)>>

\* re.search(r"<tool>(.*?)</tool>", full_response, re.DOTALL): the positions of
\* the opening and closing tag of the match, <<0, 0>> without a match
ToolCallMatch(full) ==
    IF Indices(full, TagOpen) = {} THEN <<0, 0>>
    ELSE LET open == Min(Indices(full, TagOpen))
             closes == {j \in Indices(full, TagClose) : j > open}
         IN IF closes = {} THEN <<0, 0>> ELSE <<open, Min(closes)>>

\* match.group(1)
ToolContent(full) ==
    SubSeq(full, ToolCallMatch(full)[1] + 1, ToolCallMatch(full)[2] - 1)

\* re.search(r"FUNCTION:\s*(.+)", tool_content): the position of the line
FunctionMatch(content) ==
    LET hits == {i \in 1..Len(content) : content[i][1] = "FUNCTION:"}
    IN IF hits = {} THEN 0 ELSE Min(hits)

\* re.search(r"ARGS:\s*(.+)", tool_content, re.DOTALL): the position where the
\* captured text starts; it runs to the end of tool_content
ArgsMatch(content) ==
    LET hits == {i \in 1..Len(content) : content[i][1] = "ARGS:"}
    IN IF hits = {} THEN 0 ELSE Min(hits)

\* a parser that takes any argument text for an object
JsonLoadsLenient(content) == "object"

\* json.loads(args_json): "object", "array", or "invalid" (JSONDecodeError)
JsonLoads(content) ==
    LET a == ArgsMatch(content)
    IN IF a < Len(content) THEN "invalid" ELSE content[a][2]

\* what the try block of a turn with a tool call does: the tool it executes
\* (if any), the user message it appends, the chunk it yields (if any)
HandleToolCall(reg, content) ==
    IF FunctionMatch(content) = 0
    THEN [executed |-> <<>>, message |-> <<<<"Error executing tool:", "missing FUNCTION">>>>,
          chunk |-> <<>>]
    ELSE LET tool_name == content[FunctionMatch(content)][2]
             tool_args == IF ArgsMatch(content) = 0 THEN "object" ELSE JsonLoads(content)
         IN IF tool_args = "invalid"
            THEN [executed |-> <<>>, message |-> <<<<"Error: Invalid JSON in ARGS.", "">>>>,
                  chunk |-> <<>>]
            ELSE IF tool_args # "object"
            THEN [executed |-> <<>>, message |-> <<<<"Error executing tool:", "not a mapping">>>>,
                  chunk |-> <<>>]
            ELSE LET r == ExecuteTool(reg, tool_name)
                 IN [executed |-> <<tool_name>>,
                     message |-> <<<<"Tool Output:", tool_name>>, r.value>>,
                     chunk |-> <<[kind |-> "tool_result", content |-> r.value]>>]

\* a message whose role is always that of the model
MessageAsAssistant(role, content) == [role |-> "assistant", content |-> content]

Message(role, content) == [role |-> role, content |-> content]


\* full_response once the stream is consumed: the non-empty contents, in order
Content(response) == SelectSeq(response, LAMBDA d : d # EmptyDelta)

\* the tools registered when the run starts
ReadFile == [name |-> "read_file", doc |-> "doc", raises |-> FALSE]
ListFiles == [name |-> "list_files", doc |-> "doc", raises |-> TRUE]
AgentRegistry ==
    RegistryRegister(RegistryRegister(EmptyRegistry, NewTool(ReadFile, P5)),
                     NewTool(ListFiles, P5))
AgentRegistered ==
    [n \in {"read_file", "list_files"} |->
        [func |-> IF n = "read_file" THEN ReadFile ELSE ListFiles, level |-> P5]]

\* the responses the model may give
GoodCall(name) == <<TagOpen, FunctionLine(name), ArgsText("object"), TagClose>>
Responses ==
    { <<ProseDelta>>,
      <<EmptyDelta, ProseDelta>>,
      <<TagOpen, ProseDelta>>,
      <<ProseDelta>> \o GoodCall("read_file"),
      GoodCall("list_files"),
      GoodCall(UnknownName),
      GoodCall("read_file") \o GoodCall("list_files"),
      <<TagOpen, FunctionLine("read_file"), TagClose, ProseDelta, TagClose>>,
      <<TagOpen, ArgsText("object"), TagClose>>,
      <<TagOpen, FunctionLine("read_file"), ArgsText("invalid"), TagClose>>,
      <<TagOpen, FunctionLine("read_file"), ArgsText("array"), TagClose>> }

\* the model answers turn after turn with the responses of its script, in a cycle
MaxScript == 2
Scripts == UNION {[1..n -> Responses] : n \in 1..MaxScript}
ScriptResponse(turn) == script[((turn - 1) % Len(script)) + 1]

InitAgent ==
    /\ script \in Scripts
    /\ messages = <<Message("system", <<<<"system_prompt", "">>>>),
                    Message("user", <<<<"user_prompt", "">>>>)>>
    /\ current_turn = 0
    /\ stream = <<>> /\ full_response = <<>>
    /\ yielded = <<>> /\ calls = 0 /\ execs = <<>>
    /\ apc = "loop"
    /\ registry = AgentRegistry
    /\ last_registered = AgentRegistered
    /\ SynthIdle
    /\ called = NoCall /\ ran = <<>> /\ result = <<>>
    /\ text = <<>> /\ pos = 0 /\ nDeltas = 0 /\ cuts = <<>>
    /\ state = "NORMAL" /\ buffer = <<>> /\ code_buffer = <<>> /\ out = <<>>
    /\ pc = "idle"

\* while current_turn < max_turns: current_turn += 1; stream = chat_completion_stream(...)
\* a loop without the turn budget: while True
CallModelUnbounded ==
    /\ apc = "loop"
    /\ current_turn' = current_turn + 1
    /\ calls' = calls + 1
    /\ stream' = ScriptResponse(current_turn + 1)
    /\ full_response' = <<>>
    /\ apc' = "streaming"
    /\ UNCHANGED <<script, messages, yielded, execs, clsVars, toolVars>>

\* while current_turn < max_turns: current_turn += 1; stream = chat_completion_stream(...)
CallModel ==
    /\ apc = "loop"
    /\ current_turn < max_turns
    /\ current_turn' = current_turn + 1
    /\ calls' = calls + 1
    /\ stream' = ScriptResponse(current_turn + 1)
    /\ full_response' = <<>>
    /\ apc' = "streaming"
    /\ UNCHANGED <<script, messages, yielded, execs, clsVars, toolVars>>

\* the loop condition fails: the generator ends
TurnLimit ==
    /\ apc = "loop"
    /\ current_turn >= max_turns
    /\ apc' = "limit"
    /\ UNCHANGED <<script, messages, current_turn, stream, full_response, yielded,
                   calls, execs, clsVars, toolVars>>

\* for chunk in stream: if content: full_response += content; yield chunk
StreamDelta ==
    /\ apc = "streaming"
    /\ stream # <<>>
    /\ stream' = Tail(stream)
    /\ IF Head(stream) # EmptyDelta
       THEN /\ full_response' = Append(full_response, Head(stream))
            /\ yielded' = Append(yielded, [kind |-> "delta", content |-> Head(stream)])
       ELSE UNCHANGED <<full_response, yielded>>
    /\ UNCHANGED <<script, messages, current_turn, calls, execs, apc, clsVars, toolVars>>

\* the stream has ended: append the assistant message, look for a tool call,
\* execute it and append its result, or leave the loop
EndOfTurn ==
    /\ apc = "streaming"
    /\ stream = <<>>
    /\ IF ToolCallMatch(full_response) # <<0, 0>>
       THEN LET h == HandleToolCall(registry, ToolContent(full_response))
            IN /\ messages' = messages \o <<Message("assistant", full_response),
                                            Message("user", h.message)>>
               /\ execs' = execs \o [i \in 1..Len(h.executed) |->
                                        [turn |-> current_turn, name |-> h.executed[i]]]
               /\ yielded' = yielded \o h.chunk
               /\ apc' = "loop"
       ELSE /\ messages' = Append(messages, Message("assistant", full_response))
            /\ apc' = "done"
            /\ UNCHANGED <<execs, yielded>>
    /\ UNCHANGED <<script, current_turn, stream, full_response, calls, clsVars, toolVars>>

NextAgent == CallModel \/ TurnLimit \/ StreamDelta \/ EndOfTurn
SpecAgent == InitAgent /\ [][NextAgent]_vars

----------------------------------------------------------------------------
(* Properties of the agent loop *)

\* a response holds a tool-call region: an opening tag with a closing tag after it
HasRegion(response) ==
    \E i, j \in 1..Len(Content(response)) :
        i < j /\ Content(response)[i] = TagOpen /\ Content(response)[j] = TagClose

\* the regions of a response: each opening tag paired with the next closing tag
Regions(response) ==
    LET full == Content(response)
    IN {<<i, j>> \in (1..Len(full)) \X (1..Len(full)) :
          /\ i < j /\ full[i] = TagOpen /\ full[j] = TagClose
          /\ \A k \in (i + 1)..(j - 1) : full[k] # TagClose}

\* a region made of a function-name line followed by a JSON object
WellFormedRegion(response, r) ==
    /\ r[2] = r[1] + 3
    /\ Content(response)[r[1] + 1][1] = "FUNCTION:"
    /\ Content(response)[r[1] + 2] = ArgsText("object")

Terminated == apc \in {"done", "limit"}
AssistantMessages == SelectSeq(messages, LAMBDA m : m.role = "assistant")
Notices == SelectSeq(yielded, LAMBDA y : y.kind = "limit_notice")

NoRegionScript == \A i \in 1..Len(script) : ~HasRegion(script[i])

\* C7: when no response of the model holds a tool-call region, the run makes
\* exactly one model call, appends exactly one assistant message and ends in
\* DONE after that first turn: the loop is never entered a second time, and
\* the only state the run can end in is DONE with one call and one message.
C7_NoToolCallOneTurn ==
    NoRegionScript =>
        /\ calls <= 1 /\ Len(AssistantMessages) <= 1
        /\ apc = "loop" => calls = 0
        /\ apc = "streaming" => (calls = 1 /\ Len(AssistantMessages) = 0)
        /\ Terminated =>
              (apc = "done" /\ calls = 1 /\ current_turn = 1
                 /\ Len(AssistantMessages) = 1
                 /\ AssistantMessages[1].content = Content(script[1]))
C7_Witness == NoRegionScript /\ apc = "done" /\ yielded # <<>>

AlwaysCallsScript ==
    \A i \in 1..Len(script) :
        \E r \in Regions(script[i]) :
            /\ \A q \in Regions(script[i]) : r[1] <= q[1]
            /\ WellFormedRegion(script[i], r)

\* C8: when every response holds a well-formed tool call, the run ends after
\* exactly max_turns model calls at the turn limit, having yielded exactly one
\* limit notice.
C8_TurnLimitNotice ==
    (AlwaysCallsScript /\ Terminated) =>
        (apc = "limit" /\ calls = max_turns /\ Len(Notices) = 1)

\* the turns whose stream has been consumed and handled
CompletedTurns == IF apc = "streaming" THEN current_turn - 1 ELSE current_turn
ExecsOf(turn) == SelectSeq(execs, LAMBDA e : e.turn = turn)
FirstRegion(response) ==
    CHOOSE r \in Regions(response) : \A q \in Regions(response) : r[1] <= q[1]

\* C9: at most one tool is executed per turn; of a response with two or more
\* tool regions only the first is parsed and executed, and the whole response,
\* later regions included, is the text of the assistant message of the turn.
C9_OneToolPerTurn ==
    /\ \A t \in 1..max_turns : Len(ExecsOf(t)) <= 1
    /\ Len(AssistantMessages) = CompletedTurns
    /\ \A t \in 1..CompletedTurns :
          LET response == ScriptResponse(t)
          IN /\ AssistantMessages[t].content = Content(response)
             /\ (Cardinality(Regions(response)) >= 2
                   /\ WellFormedRegion(response, FirstRegion(response)))
                => ExecsOf(t) =
                     <<[turn |-> t,
                        name |-> Content(response)[FirstRegion(response)[1] + 1][2]]>>
C9_Witness ==
    \E t \in 1..CompletedTurns :
        /\ Cardinality(Regions(ScriptResponse(t))) >= 2
        /\ Len(ExecsOf(t)) = 1
        /\ \E i \in 1..Len(AssistantMessages[t].content) :
              AssistantMessages[t].content[i] = FunctionLine("list_files")

----------------------------------------------------------------------------
(* Error handling of the agent loop *)

\* the first tool-call region of the response of turn t, when it has one
CalledRegion(t) == FirstRegion(ScriptResponse(t))
CalledName(t) == Content(ScriptResponse(t))[CalledRegion(t)[1] + 1][2]

\* turn t holds a well-formed call of a registered tool
CallsTool(t) ==
    /\ Regions(ScriptResponse(t)) # {}
    /\ WellFormedRegion(ScriptResponse(t), CalledRegion(t))
    /\ CalledName(t) \in DOMAIN registry

\* turn t calls a tool whose function raises
CallsRaisingTool(t) == CallsTool(t) /\ registry[CalledName(t)].func.raises

\* the messages and the chunk a turn with an executed tool call leaves behind
ToolTurnRecorded(t, value) ==
    /\ ExecsOf(t) = <<[turn |-> t, name |-> CalledName(t)]>>
    /\ Len(messages) >= 2 * t + 2
    /\ messages[2 * t + 1] = Message("assistant", Content(ScriptResponse(t)))
    /\ messages[2 * t + 2] = Message("user", <<<<"Tool Output:", CalledName(t)>>, value>>)
    /\ \E i \in 1..Len(yielded) : yielded[i] = [kind |-> "tool_result", content |-> value]

\* after turn t the loop goes on to the next turn, the turn budget allowing
LoopProceeds(t) ==
    (t = current_turn) =>
        /\ apc \in {"loop", "limit"}
        /\ apc = "limit" => t = max_turns
        /\ (apc = "loop" /\ t < max_turns) => ENABLED CallModel

\* C11: a tool whose function raises never aborts the loop: execute_tool
\* returns the error text, the text is appended as a user message and yielded
\* as the result of the tool, and the loop goes on to the next turn, as it
\* does after a tool that returned a value.
C11_ToolFailureNeverAborts ==
    \A t \in 1..CompletedTurns :
        /\ CallsRaisingTool(t) =>
              (ToolTurnRecorded(t, ErrorText(CalledName(t))) /\ LoopProceeds(t))
        /\ (CallsTool(t) /\ ~CallsRaisingTool(t)) =>
              (ToolTurnRecorded(t, ValueOf(registry[CalledName(t)].func)) /\ LoopProceeds(t))
C11_Witness ==
    \E t \in 1..CompletedTurns :
        /\ CallsRaisingTool(t)
        /\ calls > t
        /\ messages[2 * t + 2].content[2] = ErrorText("list_files")

\* the text between the tags of the first region of the response of turn t
CalledContent(t) ==
    SubSeq(Content(ScriptResponse(t)), CalledRegion(t)[1] + 1, CalledRegion(t)[2] - 1)

HasFunctionLine(content) == \E i \in 1..Len(content) : content[i][1] = "FUNCTION:"

\* the argument text runs from the first ARGS marker to the end of the region;
\* it is valid JSON when it is one JSON value and nothing else
InvalidArgs(content) ==
    \E i \in 1..Len(content) :
        /\ content[i][1] = "ARGS:"
        /\ \A j \in 1..(i - 1) : content[j][1] # "ARGS:"
        /\ (content[i][2] = "invalid" \/ i < Len(content))

MissingFunction(t) ==
    Regions(ScriptResponse(t)) # {} /\ ~HasFunctionLine(CalledContent(t))
BadJson(t) ==
    /\ Regions(ScriptResponse(t)) # {}
    /\ HasFunctionLine(CalledContent(t))
    /\ InvalidArgs(CalledContent(t))

CorrectiveMessages ==
    {Message("user", <<<<"Error executing tool:", "missing FUNCTION">>>>),
     Message("user", <<<<"Error: Invalid JSON in ARGS.", "">>>>)}

\* C12: a tool-call region without a function-name line, or with arguments
\* that are not valid JSON, executes no tool in its turn, appends exactly one
\* corrective user message after the assistant message of the turn, yields no
\* tool result, and the run goes on with the next model turn.
C12_ParseErrorRecovered ==
    \A t \in 1..CompletedTurns :
        (MissingFunction(t) \/ BadJson(t)) =>
            /\ ExecsOf(t) = <<>>
            /\ Len(messages) >= 2 * t + 2
            /\ messages[2 * t + 1] = Message("assistant", Content(ScriptResponse(t)))
            /\ messages[2 * t + 2] \in CorrectiveMessages
            /\ Len(messages) >= 2 * t + 3 => messages[2 * t + 3].role = "assistant"
            /\ LoopProceeds(t)
C12_Witness ==
    \E t, u \in 1..CompletedTurns :
        /\ MissingFunction(t) /\ BadJson(u)
        /\ calls > t /\ calls > u
        /\ messages[2 * t + 2] # messages[2 * u + 2]

----------------------------------------------------------------------------
(* cli.py main driving LLMProcessor.process: the whole run *)

\* the text of the deltas and of the tool-result chunk, as the classifier reads it
ToolOpenText == <<"<", "t", "o", "o", "l", ">">>
ToolCloseText == <<"<", "/", "t", "o", "o", "l", ">">>
ResultOpenText == <<"\n", "<", "t", "o", "o", "l", "_", "r", "e", "s", "u", "l", "t", ">", "\n">>
ResultCloseText == <<"\n", "<", "/", "t", "o", "o", "l", "_", "r", "e", "s", "u", "l", "t", ">", "\n">>
ValueText(value) ==
    IF value[1] = "value" THEN <<"o", "k">>
    ELSE IF value[1] = "not_found" THEN <<"T", "o", "o", "l", " ", "n", "o", "t", " ", "f", "o", "u", "n", "d", ".">>
    ELSE <<"E", "r", "r", "o", "r">>
ThinkingDelta == <<"<thinking>", "">>
DeltaText(delta) ==
    IF delta = TagOpen THEN ToolOpenText
    ELSE IF delta = TagClose THEN ToolCloseText
    ELSE IF delta[1] = "FUNCTION:" THEN <<"\n", "F", ":", " ", "f">>
    ELSE IF delta[1] = "ARGS:" THEN <<"\n", "A", ":", " ", "{", "}", "\n">>
    ELSE IF delta = ProseDelta THEN Prose
    ELSE IF delta = ThinkingDelta THEN ThinkingOpen
    ELSE <<>>

\* chunk.choices[0].delta.content of a chunk the generator yields
ChunkText(chunk) ==
    IF chunk.kind = "tool_result"
    THEN ResultOpenText \o ValueText(chunk.content) \o ResultCloseText
    ELSE DeltaText(chunk.content)

\* the body of "for chunk in stream" of main for the chunks just yielded
RECURSIVE Consume(_, _)
Consume(c, chunks) ==
    IF chunks = <<>> THEN c
    ELSE Consume(IF ChunkText(Head(chunks)) = <<>> THEN c
                 ELSE ProcessDelta(c, ChunkText(Head(chunks))),
                 Tail(chunks))

\* the object main prints when an exception reaches it
ErrorObject == <<"{error}">>

\* except Exception as e: print(json.dumps({'error': str(e)}))
MainExceptSilent(c) == c
MainExcept(c) == PrintChunk(c, ErrorObject)

\* the model stream may fail at any point of any turn, from the call that
\* opens it to its last delta
StreamRaises == apc = "streaming"

\* the responses of the model in a run that main prints: those of the agent
\* loop, and one that opens a thinking region before its tool call
RunResponses == Responses \cup {<<ThinkingDelta, ProseDelta>> \o GoodCall("read_file")}
RunScripts == UNION {[1..n -> RunResponses] : n \in 1..MaxScript}

SetClassifier(c) ==
    /\ state' = c.state
    /\ buffer' = c.buffer
    /\ code_buffer' = c.code_buffer
    /\ out' = c.out

InitRun ==
    /\ script \in RunScripts
    /\ messages = <<Message("system", <<<<"system_prompt", "">>>>),
                    Message("user", <<<<"user_prompt", "">>>>)>>
    /\ current_turn = 0
    /\ stream = <<>> /\ full_response = <<>>
    /\ yielded = <<>> /\ calls = 0 /\ execs = <<>>
    /\ apc = "loop"
    /\ registry = AgentRegistry
    /\ last_registered = AgentRegistered
    /\ SynthIdle
    /\ called = NoCall /\ ran = <<>> /\ result = <<>>
    /\ text = <<>> /\ pos = 0 /\ nDeltas = 0 /\ cuts = <<>>
    /\ state = InitialClassifier.state
    /\ buffer = InitialClassifier.buffer
    /\ code_buffer = InitialClassifier.code_buffer
    /\ out = InitialClassifier.out
    /\ pc = "feeding"

\* main asks the generator for its next chunk; the generator enters the loop
\* and opens the stream of the turn
RunCallModel ==
    /\ pc = "feeding"
    /\ CallModel

\* the generator takes the next delta of the stream and, unless it is empty,
\* yields it to main, which classifies it
RunStreamDelta ==
    /\ pc = "feeding"
    /\ apc = "streaming"
    /\ stream # <<>>
    /\ stream' = Tail(stream)
    /\ IF Head(stream) # EmptyDelta
       THEN /\ full_response' = Append(full_response, Head(stream))
            /\ yielded' = Append(yielded, [kind |-> "delta", content |-> Head(stream)])
            /\ SetClassifier(Consume(Classifier,
                                     <<[kind |-> "delta", content |-> Head(stream)]>>))
       ELSE UNCHANGED <<full_response, yielded, state, buffer, code_buffer, out>>
    /\ UNCHANGED <<script, messages, current_turn, calls, execs, apc,
                   text, pos, nDeltas, cuts, pc, toolVars>>

\* an end of turn that does not wait for the end of the stream
RunEndOfTurnEarly ==
    /\ pc = "feeding"
    /\ apc = "streaming"
    /\ IF ToolCallMatch(full_response) # <<0, 0>>
       THEN LET h == HandleToolCall(registry, ToolContent(full_response))
            IN /\ messages' = messages \o <<Message("assistant", full_response),
                                            Message("user", h.message)>>
               /\ execs' = execs \o [i \in 1..Len(h.executed) |->
                                        [turn |-> current_turn, name |-> h.executed[i]]]
               /\ yielded' = yielded \o h.chunk
               /\ apc' = "loop"
               /\ SetClassifier(Consume(Classifier, h.chunk))
               /\ pc' = pc
       ELSE /\ messages' = Append(messages, Message("assistant", full_response))
            /\ apc' = "done"
            /\ out' = FlushRemaining(Classifier).out
            /\ pc' = "flushed"
            /\ UNCHANGED <<execs, yielded, state, buffer, code_buffer>>
    /\ UNCHANGED <<script, current_turn, stream, full_response, calls,
                   text, pos, nDeltas, cuts, toolVars>>

\* the stream of the turn has ended: the generator handles the tool call and
\* yields its result to main, or returns, and main flushes its buffer
RunEndOfTurn ==
    /\ pc = "feeding"
    /\ apc = "streaming"
    /\ stream = <<>>
    /\ IF ToolCallMatch(full_response) # <<0, 0>>
       THEN LET h == HandleToolCall(registry, ToolContent(full_response))
            IN /\ messages' = messages \o <<Message("assistant", full_response),
                                            Message("user", h.message)>>
               /\ execs' = execs \o [i \in 1..Len(h.executed) |->
                                        [turn |-> current_turn, name |-> h.executed[i]]]
               /\ yielded' = yielded \o h.chunk
               /\ apc' = "loop"
               /\ SetClassifier(Consume(Classifier, h.chunk))
               /\ pc' = pc
       ELSE /\ messages' = Append(messages, Message("assistant", full_response))
            /\ apc' = "done"
            /\ out' = FlushRemaining(Classifier).out
            /\ pc' = "flushed"
            /\ UNCHANGED <<execs, yielded, state, buffer, code_buffer>>
    /\ UNCHANGED <<script, current_turn, stream, full_response, calls,
                   text, pos, nDeltas, cuts, toolVars>>

\* the turn budget is used up: the generator returns and main flushes
RunTurnLimit ==
    /\ pc = "feeding"
    /\ apc = "loop"
    /\ current_turn >= max_turns
    /\ apc' = "limit"
    /\ out' = FlushRemaining(Classifier).out
    /\ pc' = "flushed"
    /\ UNCHANGED <<script, messages, current_turn, stream, full_response, yielded,
                   calls, execs, text, pos, nDeltas, cuts, state, buffer, code_buffer,
                   toolVars>>

\* the stream raises: process has no handler, the generator dies, and the
\* exception reaches the except clause of main
StreamFails ==
    /\ pc = "feeding"
    /\ StreamRaises
    /\ apc' = "failed"
    /\ out' = MainExcept(Classifier).out
    /\ pc' = "error"
    /\ UNCHANGED <<script, messages, current_turn, stream, full_response, yielded,
                   calls, execs, text, pos, nDeltas, cuts, state, buffer, code_buffer,
                   toolVars>>

NextRun == RunCallModel \/ RunStreamDelta \/ RunEndOfTurn \/ RunTurnLimit \/ StreamFails
SpecRun == InitRun /\ [][NextRun]_vars

\* C13: a failure of the model stream ends the run: the failed call is not
\* made again, no step of the run follows it (no model call, no tool
\* execution, no fragment), and the output holds exactly one error object, as
\* its last entry; a run without a failure prints no error object.
C13_TransportFailureFatal ==
    /\ calls = current_turn
    /\ apc = "failed" =>
          /\ pc = "error"
          /\ Occurrences(out, ErrorObject) = 1
          /\ out[Len(out)] = ErrorObject
          /\ ~ENABLED NextRun
    /\ apc # "failed" => (pc # "error" /\ Occurrences(out, ErrorObject) = 0)
C13_Witness ==
    /\ apc = "failed" /\ current_turn = 2 /\ execs # <<>>
    /\ Len(out) >= 2 /\ full_response # <<>>

----------------------------------------------------------------------------
(* Properties of the registry *)

AllNames == ToolNames \cup {UnknownName}

\* C14: after any sequence of register calls the registry holds one tool per
\* registered name, filed under its own name, and get_tool(name) gives the
\* function, description and permission level of the latest register call
\* under that name, never a mixture with an earlier one; a name never
\* registered has no tool.
C14_LastRegistrationWins ==
    /\ DOMAIN registry = DOMAIN last_registered
    /\ \A n \in AllNames :
          IF n \in DOMAIN last_registered
          THEN /\ GetTool(registry, n).name = n
               /\ GetTool(registry, n).func = last_registered[n].func
               /\ GetTool(registry, n).description = last_registered[n].func.doc
               /\ GetTool(registry, n).permission_level = last_registered[n].level
          ELSE GetTool(registry, n) = NoTool
C14_Witness ==
    /\ called # NoCall /\ called.tool # NoTool
    /\ GetTool(registry, called.name) # NoTool
    /\ GetTool(registry, called.name).func # called.tool.func

\* C15: set_visibility(name, v) changes the is_visible flag of the named
\* tool and nothing else: the registered names, the other fields of the
\* tool and every other tool stay as they were, an unregistered name changes
\* nothing, and afterwards get_visible_tools holds exactly the registered
\* tools whose flag is true.
C15_SetVisibilityFrame ==
    [][\A name \in AllNames, v \in BOOLEAN :
          SetVisibility(name, v) =>
              /\ DOMAIN registry' = DOMAIN registry
              /\ \A n \in DOMAIN registry :
                    /\ registry'[n].name = registry[n].name
                    /\ registry'[n].description = registry[n].description
                    /\ registry'[n].func = registry[n].func
                    /\ registry'[n].permission_level = registry[n].permission_level
                    /\ registry'[n].is_visible = IF n = name THEN v ELSE registry[n].is_visible
              /\ name \notin DOMAIN registry => registry' = registry
              /\ DOMAIN GetVisibleTools(registry') =
                    {n \in DOMAIN registry' : registry'[n].is_visible}
              /\ \A n \in DOMAIN GetVisibleTools(registry') :
                    GetVisibleTools(registry')[n] = registry'[n]
      ]_vars
C15_Witness ==
    \E n, m \in DOMAIN registry :
        /\ ~registry[n].is_visible /\ registry[m].is_visible
        /\ DOMAIN GetVisibleTools(registry) = {m}

----------------------------------------------------------------------------
(* tools.py: get_tools_definitions *)

\* the JSON type exported for the annotation of a parameter
ParamType(annotation) ==
    IF annotation = "int" THEN "integer"
    ELSE IF annotation = "bool" THEN "boolean"
    ELSE IF annotation = "list" THEN "array"
    ELSE IF annotation = "dict" THEN "object"
    ELSE "string"

\* params[param_name] = {"type": ..., "description": ...} over sig.parameters
PropertiesOf(params) ==
    [n \in {params[i].name : i \in 1..Len(params)} |->
        LET i == CHOOSE j \in 1..Len(params) : params[j].name = n
        IN [type |-> ParamType(params[i].annotation),
            description |-> <<"Parameter", n>>]]

\* a required list that does not look at the defaults
RequiredOfAll(params) == [i \in 1..Len(params) |-> params[i].name]

\* if param.default == inspect.Parameter.empty: required.append(param_name)
RequiredOf(params) ==
    LET bare == SelectSeq(params, LAMBDA q : ~q.has_default)
    IN [i \in 1..Len(bare) |-> bare[i].name]

\* doc.strip()
StripDoc(doc) == IF doc = " doc " THEN "doc" ELSE doc

\* get_tools_definitions(): the definition exported for each visible tool
GetToolsDefinitions(reg) ==
    [n \in DOMAIN GetVisibleTools(reg) |->
        [name |-> n,
         description |-> StripDoc(reg[n].description),
         parameters |-> [type |-> "object",
                         properties |-> PropertiesOf(reg[n].func.params),
                         required |-> RequiredOf(reg[n].func.params)]]]

\* the signatures of the functions registered: each parameter has a name, an
\* annotation ("none" when it has none) and may have a default
Param(name, annotation, has_default) ==
    [name |-> name, annotation |-> annotation, has_default |-> has_default]
Signatures ==
    { <<>>,
      <<Param("path", "str", FALSE)>>,
      <<Param("path", "none", FALSE), Param("limit", "int", TRUE)>>,
      <<Param("items", "list", FALSE), Param("flag", "bool", TRUE),
        Param("options", "dict", TRUE), Param("kwargs", "none", FALSE)>> }
CatalogueFuncs ==
    [name : ToolNames, doc : Docs \cup {" doc "}, raises : {FALSE}, params : Signatures]

InitCatalogue == InitTools

CatalogueRegister(f) ==
    /\ pc = "idle"
    /\ RegisterTool(f, P5)

CatalogueSetVisibility(name, is_visible) ==
    /\ pc = "idle"
    /\ SetVisibility(name, is_visible)

\* a caller asks for the catalogue
ExportCatalogue ==
    /\ pc = "idle"
    /\ result' = GetToolsDefinitions(registry)
    /\ pc' = "exported"
    /\ UNCHANGED <<text, pos, nDeltas, cuts, state, buffer, code_buffer, out,
                   agentVars, registry, called, ran, last_registered, synthVars>>

NextCatalogue ==
    \/ \E f \in CatalogueFuncs : CatalogueRegister(f)
    \/ \E name \in AllNames, v \in BOOLEAN : CatalogueSetVisibility(name, v)
    \/ ExportCatalogue
SpecCatalogue == InitCatalogue /\ [][NextCatalogue]_vars

\* what a reader of an exported definition gets back from its schema
ParsedNames(definition) == DOMAIN definition.parameters.properties
ParsedRequired(definition) ==
    {definition.parameters.required[i] : i \in 1..Len(definition.parameters.required)}

\* what the function declares
DeclaredNames(f) == {f.params[i].name : i \in 1..Len(f.params)}
DeclaredRequired(f) == {f.params[i].name : i \in {j \in 1..Len(f.params) : ~f.params[j].has_default}}

\* C16: the exported catalogue has one definition for every visible
\* registered tool and none for a hidden one; the definition lists exactly the
\* parameter names the function declares, and its required list holds, once
\* each, exactly the parameters declared without a default.
C16_CatalogueRoundTrip ==
    pc = "exported" =>
        /\ DOMAIN result = {n \in DOMAIN registry : registry[n].is_visible}
        /\ \A n \in DOMAIN result :
              /\ result[n].name = n
              /\ ParsedNames(result[n]) = DeclaredNames(registry[n].func)
              /\ ParsedRequired(result[n]) = DeclaredRequired(registry[n].func)
              /\ Len(result[n].parameters.required) =
                    Cardinality(DeclaredRequired(registry[n].func))
C16_Witness ==
    /\ pc = "exported"
    /\ \E n \in DOMAIN result :
          /\ Cardinality(ParsedNames(result[n])) = 4
          /\ ParsedRequired(result[n]) = {"items", "kwargs"}
    /\ \E n \in DOMAIN registry : n \notin DOMAIN result

----------------------------------------------------------------------------
(* The arguments of a tool call: json.loads, execute_tool, Tool.run *)

\* a value of the argument object after json.loads: its JSON kind and its text
Value(kind, chars) == [kind |-> kind, chars |-> chars]

\* Tool.run(**kwargs): the function is called with the keyword arguments given
ToolRun(tool, kwargs) == [func |-> tool.func, kwargs |-> kwargs]

\* execute_tool(_tool_name, **kwargs): the calls it makes and what it returns
ExecuteToolArgs(reg, name, kwargs) ==
    [ran |-> IF GetTool(reg, name) # NoTool
             THEN <<ToolRun(GetTool(reg, name), kwargs)>>
             ELSE <<>>,
     value |-> ExecuteTool(reg, name).value]

\* the values the model may put in the argument object
Digits == {"0", "1", "2", "3", "4", "5", "6", "7", "8", "9"}
ArgValues ==
    { Value("str", <<"a", "b">>),
      Value("str", <<"4", "2">>),
      Value("str", <<"-", "7">>),
      Value("str", <<"t", "r", "u", "e">>),
      Value("str", <<"[", "1", "]">>),
      Value("str", <<"{", "x", "}">>),
      Value("int", <<"4", "2">>),
      Value("bool", <<"t", "r", "u", "e">>) }
ArgNames == {"x", "y"}
ArgObjects == UNION {[names -> ArgValues] : names \in SUBSET ArgNames}

InitArgs ==
    /\ registry = AgentRegistry
    /\ last_registered = AgentRegistered
    /\ SynthIdle
    /\ called = NoCall /\ ran = <<>> /\ result = <<>>
    /\ text = <<>> /\ pos = 0 /\ nDeltas = 0 /\ cuts = <<>>
    /\ state = "NORMAL" /\ buffer = <<>> /\ code_buffer = <<>> /\ out = <<>>
    /\ pc = "idle"
    /\ AgentIdle

\* result = execute_tool(tool_name, **tool_args)
CallWithArgs(name, tool_args) ==
    /\ called' = [name |-> name, tool |-> GetTool(registry, name), args |-> tool_args]
    /\ ran' = ExecuteToolArgs(registry, name, tool_args).ran
    /\ result' = ExecuteToolArgs(registry, name, tool_args).value
    /\ UNCHANGED <<registry, last_registered, synthVars, clsVars, agentVars>>

NextArgs == \E name \in AllNames, tool_args \in ArgObjects : CallWithArgs(name, tool_args)
SpecArgs == InitArgs /\ [][NextArgs]_vars

\* the coercion of an argument with no declared type
IsSignedDigits(chars) ==
    LET digits == IF chars # <<>> /\ Head(chars) \in {"-", "+"} THEN Tail(chars) ELSE chars
    IN digits # <<>> /\ \A i \in 1..Len(digits) : digits[i] \in Digits
IsBracketed(chars) ==
    /\ Len(chars) >= 2
    /\ <<chars[1], chars[Len(chars)]>> \in {<<"[", "]">>, <<"{", "}">>}
\* of the bracketed texts above, the one that is JSON
ParsesAsJson(chars) == chars = <<"[", "1", "]">>
Coerced(v) ==
    IF v.kind # "str" THEN v
    ELSE IF IsBracketed(v.chars) /\ ParsesAsJson(v.chars) THEN Value("json", v.chars)
    ELSE IF IsSignedDigits(v.chars) THEN Value("int", v.chars)
    ELSE IF v.chars \in {<<"t", "r", "u", "e">>, <<"f", "a", "l", "s", "e">>}
         THEN Value("bool", v.chars)
    ELSE v

\* C17: the function of a tool is called with the coerced arguments: a string
\* of optionally signed digits arrives as an integer, "true"/"false" as a
\* boolean, a bracketed string that parses as its JSON value, and every other
\* value as it was supplied.
C17_ArgumentsCoerced ==
    \A i \in 1..Len(ran) :
        /\ DOMAIN ran[i].kwargs = DOMAIN called.args
        /\ \A k \in DOMAIN called.args : ran[i].kwargs[k] = Coerced(called.args[k])

----------------------------------------------------------------------------
(* tools.py: create_tool and _register_tool_memory *)

max_retries == 3

\* The code of a candidate, by what the checks of create_tool and of
\* _register_tool_memory see of it:
\*   def_name    the name of its first "def name(" ("" when it has none)
\*   compiles    compile(code) succeeds
\*   exec_raises executing it raises an Exception
\*   binds       the name it binds in the namespace it is executed in ("" none)
\*   callable    the value bound is callable
\*   dangerous   it contains "import os" and "remove"
\*   decorable   it still compiles with "@register_tool" put before its first line
\*   registers   the name under which executing it registers a tool by itself,
\*               through "from tools import register_tool" ("" when it does not)
NoCode == [absent |-> TRUE]
Code(def_name, compiles, exec_raises, binds, callable, dangerous, decorable, registers) ==
    [def_name |-> def_name, compiles |-> compiles, exec_raises |-> exec_raises,
     binds |-> binds, callable |-> callable, dangerous |-> dangerous,
     decorable |-> decorable, registers |-> registers]

\* A response of the code agent: the call raises, or it returns a text with or
\* without a "Name:" line, a "Description:" line and a python code block
Candidate(reply, raises, name_line, desc_line, code) ==
    [text |-> reply, raises |-> raises, name_line |-> name_line,
     desc_line |-> desc_line, code |-> code]

\* 3. Parse Response: the name and the code taken from the response
ParseResponse(r) ==
    IF r.name_line # "" /\ r.desc_line /\ r.code # NoCode
    THEN [name |-> r.name_line, code |-> r.code]
    ELSE IF r.code # NoCode
    THEN [name |-> r.code.def_name, code |-> r.code]
    ELSE [name |-> "", code |-> NoCode]

\* a verification that accepts every candidate
SandboxVerifyNothing(name, code) == "ok"

\* 4. Sandbox Verification: "ok", or the error the except clause reports
SandboxVerify(name, code) ==
    IF ~code.compiles THEN "Sandbox Verification Failed: invalid syntax"
    ELSE IF code.exec_raises THEN "Sandbox Verification Failed: raised"
    ELSE IF code.binds # name THEN "Sandbox Verification Failed: not defined"
    ELSE IF ~code.callable THEN "Sandbox Verification Failed: not callable"
    ELSE "ok"

\* the function a piece of code defines under a name
DefinedFunc(name) == [name |-> name, doc |-> "doc", raises |-> FALSE]

\* exec(code, sandbox_globals): the namespace is new, the modules the code
\* imports are the live ones, so a code that imports register_tool and
\* applies it registers its function in P10Config.TOOLS
SandboxExec(reg, code) ==
    IF code.compiles /\ code.registers # ""
    THEN RegistryRegister(reg, NewTool(DefinedFunc(code.registers), P5))
    ELSE reg

\* _register_tool_memory(name, code, description): the registry it leaves and
\* the text it returns
RegisterToolMemory(reg, name, code) ==
    IF code.dangerous
    THEN [registry |-> reg, value |-> <<"Error: Potentially dangerous code detected.", "">>]
    ELSE IF code.def_name # name
    THEN [registry |-> reg, value |-> <<"Error: The code must define a function named", name>>]
    ELSE IF code.registers = "" /\ ~code.decorable
    THEN [registry |-> reg, value |-> <<"Error loading tool in memory:", "invalid syntax">>]
    ELSE [registry |-> RegistryRegister(reg, NewTool(DefinedFunc(
                           IF code.registers # "" THEN code.registers ELSE name), P5)),
          value |-> <<"temporary_tool_created", name>>]

\* _register_tool_memory, "Write to tools_tmp.py for persistence": the code is
\* appended to the file; when opening or writing the file raises, a warning is
\* printed and the file is left as it was
StageTool(file, code, writable) ==
    IF writable THEN Append(file, code) ELSE file

\* a rejection that appends the corrective message only
RetryMessagesUserOnly(r, last) ==
    <<Message("user", <<<<"The code you generated failed verification:", last>>>>)>>

\* the two messages appended when an attempt is rejected
RetryMessages(r, last) ==
    <<Message("assistant", <<<<r.text, "">>>>),
      Message("user", <<<<IF last = "Failed to parse output format."
                          THEN "Error: Please ensure you follow the Output Format exactly."
                          ELSE "The code you generated failed verification:", last>>>>)>>

\* the replies of the code agent
GoodCode == Code("new_tool", TRUE, FALSE, "new_tool", TRUE, FALSE, TRUE, "")
Candidates ==
    { Candidate("good", FALSE, "new_tool", TRUE, GoodCode),
      Candidate("no code block", FALSE, "new_tool", TRUE, NoCode),
      Candidate("code only", FALSE, "", FALSE, GoodCode),
      Candidate("code only, no def", FALSE, "", FALSE,
                Code("", TRUE, FALSE, "new_tool", TRUE, FALSE, TRUE, "")),
      Candidate("syntax error", FALSE, "new_tool", TRUE,
                Code("new_tool", FALSE, FALSE, "", FALSE, FALSE, FALSE, "")),
      Candidate("raises when executed", FALSE, "new_tool", TRUE,
                Code("new_tool", TRUE, TRUE, "", FALSE, FALSE, TRUE, "")),
      Candidate("defines another name", FALSE, "new_tool", TRUE,
                Code("other", TRUE, FALSE, "other", TRUE, FALSE, TRUE, "")),
      Candidate("not callable", FALSE, "new_tool", TRUE,
                Code("", TRUE, FALSE, "new_tool", FALSE, FALSE, TRUE, "")),
      Candidate("import os and remove", FALSE, "new_tool", TRUE,
                Code("new_tool", TRUE, FALSE, "new_tool", TRUE, TRUE, TRUE, "")),
      Candidate("lambda", FALSE, "new_tool", TRUE,
                Code("", TRUE, FALSE, "new_tool", TRUE, FALSE, TRUE, "")),
      Candidate("import on the first line", FALSE, "new_tool", TRUE,
                Code("new_tool", TRUE, FALSE, "new_tool", TRUE, FALSE, FALSE, "")),
      Candidate("registers itself under another name", FALSE, "new_tool", TRUE,
                Code("leaked", TRUE, FALSE, "leaked", TRUE, FALSE, TRUE, "leaked")),
      Candidate("decorates another function", FALSE, "new_tool", TRUE,
                Code("new_tool", TRUE, FALSE, "new_tool", TRUE, FALSE, TRUE, "other")),
      Candidate("transport error", TRUE, "", FALSE, NoCode) }
SynthScripts == [1..max_retries -> Candidates]

InitSynth ==
    /\ script \in SynthScripts
    /\ pc \in {"unconfigured", "configured"}
    /\ messages = <<>>
    /\ calls = 0
    /\ SynthIdle
    /\ registry = AgentRegistry
    /\ last_registered = AgentRegistered
    /\ called = NoCall /\ ran = <<>> /\ result = <<>>
    /\ current_turn = 0 /\ stream = <<>> /\ full_response = <<>>
    /\ yielded = <<>> /\ execs = <<>> /\ apc = "idle"
    /\ text = <<>> /\ pos = 0 /\ nDeltas = 0 /\ cuts = <<>>
    /\ state = "NORMAL" /\ buffer = <<>> /\ code_buffer = <<>> /\ out = <<>>

synthFrame == <<script, current_turn, stream, full_response, yielded, execs, apc,
                called, ran, clsFrame>>

\* create_tool is entered: without LLM_CONFIG it returns at once, with it the
\* conversation is built and the loop starts
EnterCreateTool ==
    /\ pc \in {"unconfigured", "configured"}
    /\ IF pc = "unconfigured"
       THEN /\ result' = <<"Error: LLM configuration not set. Cannot use Code Agent.", "">>
            /\ pc' = "returned"
            /\ UNCHANGED messages
       ELSE /\ messages' = <<Message("system", <<<<"system_prompt", "">>>>),
                             Message("user", <<<<"Create a tool for this requirement:", "">>>>)>>
            /\ pc' = "attempting"
            /\ UNCHANGED result
    /\ UNCHANGED <<calls, synthVars, registry, last_registered, synthFrame>>

\* one pass of "for attempt in range(max_retries)": call the code agent, parse
\* its reply, verify the code, then register it and return, or note the error,
\* append the corrective messages and continue
SynthAttempt ==
    /\ pc = "attempting"
    /\ attempt < max_retries
    /\ calls' = calls + 1
    /\ LET r == script[attempt + 1]
           parsed == ParseResponse(r)
       IN IF r.raises
          THEN /\ result' = <<"Error calling Code Agent:", r.text>>
               /\ pc' = "returned"
               /\ UNCHANGED <<messages, synthVars, registry, last_registered>>
          ELSE IF parsed.name = "" \/ parsed.code = NoCode
          THEN /\ last_error' = "Failed to parse output format."
               /\ messages' = messages \o RetryMessages(r, "Failed to parse output format.")
               /\ attempt' = attempt + 1
               /\ UNCHANGED <<result, pc, registry, last_registered, tools_tmp, indexVars>>
          ELSE LET verdict == SandboxVerify(parsed.name, parsed.code)
                   executed == SandboxExec(registry, parsed.code)
                   noted == IF executed # registry
                            THEN NoteRegistration(last_registered,
                                                  DefinedFunc(parsed.code.registers), P5)
                            ELSE last_registered
               IN IF verdict = "ok"
                  THEN LET done == RegisterToolMemory(executed, parsed.name, parsed.code)
                       IN /\ registry' = done.registry
                          /\ last_registered' =
                                IF done.value[1] = "temporary_tool_created"
                                THEN NoteRegistration(noted, done.registry[
                                         IF parsed.code.registers # ""
                                         THEN parsed.code.registers
                                         ELSE parsed.name].func, P5)
                                ELSE noted
                          /\ result' = done.value
                          /\ pc' = "returned"
                          /\ \E writable \in BOOLEAN :
                                tools_tmp' =
                                    IF done.value[1] = "temporary_tool_created"
                                    THEN StageTool(tools_tmp, parsed.code, writable)
                                    ELSE tools_tmp
                          /\ UNCHANGED <<messages, attempt, last_error, indexVars>>
                  ELSE /\ registry' = executed
                       /\ last_registered' = noted
                       /\ last_error' = verdict
                       /\ messages' = messages \o RetryMessages(r, verdict)
                       /\ attempt' = attempt + 1
                       /\ UNCHANGED <<result, pc, tools_tmp, indexVars>>
    /\ UNCHANGED synthFrame

\* the loop has run max_retries times: the failure text is returned
Exhausted ==
    /\ pc = "attempting"
    /\ attempt >= max_retries
    /\ result' = <<"Failed to create tool after 3 attempts. Last error:", last_error>>
    /\ pc' = "returned"
    /\ UNCHANGED <<messages, calls, synthVars, registry, last_registered,
                   synthFrame>>

NextSynth == EnterCreateTool \/ SynthAttempt \/ Exhausted
SpecSynth == InitSynth /\ [][NextSynth]_vars

----------------------------------------------------------------------------
(* Properties of create_tool *)

\* a reply whose required fields are missing
FailsParsing(r) == ~r.raises /\ (ParseResponse(r).name = "" \/ ParseResponse(r).code = NoCode)

\* a reply whose code has a syntax error, raises when executed, or does not
\* define a callable under the declared name
VerificationError(r) ==
    LET name == ParseResponse(r).name
        code == ParseResponse(r).code
    IN IF ~code.compiles THEN "Sandbox Verification Failed: invalid syntax"
       ELSE IF code.exec_raises THEN "Sandbox Verification Failed: raised"
       ELSE IF code.binds # name THEN "Sandbox Verification Failed: not defined"
       ELSE IF ~code.callable THEN "Sandbox Verification Failed: not callable"
       ELSE "none"
FailsVerification(r) == ~r.raises /\ ~FailsParsing(r) /\ VerificationError(r) # "none"
PassesVerification(r) == ~r.raises /\ ~FailsParsing(r) /\ VerificationError(r) = "none"

\* a verified reply that the checks of the registration step turn down
RejectedByRegistration(r) ==
    /\ PassesVerification(r)
    /\ RegisterToolMemory(AgentRegistry, ParseResponse(r).name,
                          ParseResponse(r).code).value[1] # "temporary_tool_created"

AttemptFails(r) == FailsParsing(r) \/ FailsVerification(r)
ErrorOf(r) == IF FailsParsing(r) THEN "Failed to parse output format." ELSE VerificationError(r)

\* C18: create_tool makes at most max_retries model calls and then stops:
\* once the third attempt is rejected only the return is left; what it returns
\* is always a text, and when all three attempts failed it is the text
\* "Failed to create tool after 3 attempts" carrying the error of the third.
C18_CreateToolTerminates ==
    /\ calls <= max_retries /\ attempt <= max_retries
    /\ pc = "attempting" => calls = attempt
    /\ (pc = "attempting" /\ attempt = max_retries) =>
          (ENABLED Exhausted /\ ~ENABLED SynthAttempt)
    /\ pc = "returned" => (result # <<>> /\ ~ENABLED NextSynth)
    /\ (pc = "returned" /\ calls > 0 /\ \A i \in 1..max_retries : AttemptFails(script[i])) =>
          /\ calls = max_retries
          /\ result = <<"Failed to create tool after 3 attempts. Last error:",
                        ErrorOf(script[max_retries])>>
C18_Witness ==
    /\ pc = "returned" /\ calls = max_retries
    /\ FailsParsing(script[1]) /\ FailsVerification(script[2])
    /\ result = <<"Failed to create tool after 3 attempts. Last error:",
                  "Sandbox Verification Failed: not callable">>

\* a reply turned down for one of the reasons the retry covers
CandidateRejected(r) == AttemptFails(r) \/ RejectedByRegistration(r)

\* C19: whenever a candidate is rejected (fields missing, syntax error, name
\* not defined or not callable, or turned down by the checks of the
\* registration step) with attempts left, create_tool appends the corrective
\* messages and calls the code agent again; it does not return on that attempt.
C19_SynthesisRetried ==
    \A i \in 1..calls :
        (CandidateRejected(script[i]) /\ i < max_retries) =>
            /\ ~(pc = "returned" /\ calls = i)
            /\ Len(messages) >= 2 + 2 * i
            /\ messages[2 + 2 * i - 1] = Message("assistant", <<<<script[i].text, "">>>>)
            /\ messages[2 + 2 * i].role = "user"

\* C20: during a create_tool run the registry changes only by the registration
\* of a candidate that passed the verification: as long as every attempt made
\* failed parsing or verification, the registry is as it was.
C20_RegistryOnlyAfterVerification ==
    registry # AgentRegistry =>
        (pc = "returned" /\ calls >= 1 /\ PassesVerification(script[calls]))

\* the acknowledgment _register_tool_memory returns for a name
Acknowledged(name) == pc = "returned" /\ result = <<"temporary_tool_created", name>>

\* the file tools_tmp.py holds a source that defines the name
Staged(name) == \E i \in 1..Len(tools_tmp) : tools_tmp[i].def_name = name

\* C21: whenever create_tool returns the acknowledgment "temporary_tool_created"
\* for a name, the live registry holds a tool under that name and the file
\* tools_tmp.py holds its source.
C21_AcknowledgedToolInstalled ==
    \A name \in {"new_tool", "other", "leaked"} :
        Acknowledged(name) => (GetTool(registry, name) # NoTool /\ Staged(name))

----------------------------------------------------------------------------
(* Properties of the classifier over the whole run *)

\* the stream of the turn is open and none of its deltas has been taken
TurnStarts == apc = "streaming" /\ stream = ScriptResponse(current_turn)

\* C22: the state and the buffer of the classifier live for one streamed
\* response: when the first delta of a model turn arrives the classifier is in
\* NORMAL and holds no text, whatever the previous response and the tool
\* result left open.
C22_ClassifierFreshEachTurn ==
    TurnStarts => (state = "NORMAL" /\ buffer = <<>> /\ code_buffer = <<>>)

\* the model never opens a thinking region: the classifier reads every delta of
\* the run in NORMAL
NoThinking == \A t \in 1..Len(script) : Indices(script[t], ThinkingDelta) = {}

\* C23: in NORMAL, when the buffer holds "<tool>", the classifier leaves NORMAL
\* for the tool region, so that after a delta no "<tool>" is left in a NORMAL
\* buffer, and the interior of a tool call the agent loop executed (its
\* function line) is in no fragment emitted as plain text.
C23_ToolRegionRecognised ==
    /\ state = "NORMAL" => ~Contains(buffer, ToolOpenText)
    /\ (NoThinking /\ execs # <<>>) =>
          \A i \in 1..Len(out) : ~Contains(out[i], <<"F", ":">>)

----------------------------------------------------------------------------
(* Properties of the classifier: regions and hold-back *)

\* the responses whose code block is opened inside an action region
ActionFenceTexts ==
    {lead \o ActionOpen \o FenceOpen \o Newline \o CommentLine \o CodeLine \o Fence
          \o ActionClose \o tail : lead \in Leads, tail \in Tails}

\* the first delta ended inside the first fence opener of the text
SplitInOpener ==
    /\ nDeltas >= 1
    /\ cuts[1] >= Find(text, FenceOpen)
    /\ cuts[1] < Find(text, FenceOpen) + Len(FenceOpen) - 1

\* C24: in ACTION a fence opener cut by a delta boundary at any position is
\* still recognised: the part delivered is held, none of it is emitted, and
\* when the next delta completes the opener the code block is entered (its
\* real code is shown).
C24_ActionOpenerSplit ==
    text \in ActionFenceTexts =>
        /\ (pc = "feeding" /\ state = "ACTION") =>
              \A j \in 1..(Len(FenceOpen) - 1) :
                  Straddles(FenceOpen, j) => EndsWith(buffer, SubSeq(FenceOpen, 1, j))
        /\ (SplitInOpener /\ pos = Len(text)) => Occurrences(out, CodeStartHtml) = 1

\* the passes of the while loop for one delta: the classifier before each pass,
\* and after the last
RECURSIVE Passes(_)
Passes(c) ==
    LET r == Step(c) IN <<c>> \o (IF r.again THEN Passes(r) ELSE <<r>>)

\* the lengths of the delta that may come next
NextDeltas ==
    IF pc # "feeding" \/ nDeltas >= MaxDeltas THEN {}
    ELSE IF nDeltas = MaxDeltas - 1 THEN {Len(text) - pos} \ {0}
    ELSE 1..(Len(text) - pos)

\* C25: whatever delta comes next, a pass of the loop that finds the closing
\* fence in EXECUTING or CHECKING_CODE leaves the classifier in ACTION, never
\* in NORMAL, also when the block was opened from NORMAL; and ACTION is left
\* only for NORMAL by a pass that finds "</action>", or for the next code block
\* by a pass that finds its opener.
C25_ClosingFenceToAction ==
    \A k \in NextDeltas :
        LET passes == Passes([Classifier EXCEPT !.buffer = @ \o SubSeq(text, pos + 1, pos + k)])
        IN \A i \in 1..(Len(passes) - 1) :
              LET before == passes[i]
                  after == passes[i + 1]
              IN /\ (before.state \in {"EXECUTING", "CHECKING_CODE"}
                        /\ Contains(before.buffer, Fence)) => after.state = "ACTION"
                 /\ before.state \in {"EXECUTING", "CHECKING_CODE"} =>
                        after.state # "NORMAL"
                 /\ (before.state = "ACTION" /\ after.state # "ACTION") =>
                        \/ after.state = "NORMAL" /\ Contains(before.buffer, ActionClose)
                        \/ after.state = "CHECKING_CODE"
                              /\ Contains(before.buffer, FenceOpen)
\* a block opened from NORMAL was closed, in EXECUTING, and the text after it
\* was read in ACTION
C25_Witness ==
    /\ text = FenceOpen \o Newline \o CodeLine \o Fence \o Prose
    /\ pos = Len(text) /\ nDeltas = 2
    /\ Occurrences(out, CodeEndHtml) = 1
    /\ state = "ACTION" /\ buffer = <<>>

\* the responses whose thinking region is cut short by an action marker
ForceCloseTexts ==
    {lead \o ThinkingOpen \o Plan \o ActionOpen \o Prose \o close \o tail :
        lead \in Leads, close \in {ActionClose, ThinkingClose}, tail \in Tails}

\* the marker m of the text has been delivered whole
Delivered(m) == Contains(text, m) /\ pos >= Find(text, m) + Len(m) - 1

\* the text printed between the opening and the closing fragment of thinking
ThinkingPayload ==
    LET starts == Indices(out, ThinkingStartHtml)
        ends == Indices(out, ThinkingEndHtml)
    IN IF starts = {} \/ ends = {} THEN <<>>
       ELSE Payload(SubSeq(out, Min(starts) + 1, Min(ends) - 1))

\* C26: in THINKING, when the action marker comes before any "</thinking>",
\* the text before the marker is what is emitted as thinking text, the closing
\* fragment of thinking is emitted exactly once and the classifier is in ACTION
\* (until "</action>" arrives), for every cut of the response into deltas.
C26_ThinkingForceClosed ==
    (text \in ForceCloseTexts /\ pc = "feeding" /\ Delivered(ActionOpen)) =>
        /\ Occurrences(out, ThinkingEndHtml) = 1
        /\ ThinkingPayload = Plan
        /\ ~Delivered(ActionClose) => state = "ACTION"

\* the responses whose thinking region is cut short by a code fence
FenceInThinkingTexts ==
    {lead \o ThinkingOpen \o Plan \o Fence \o Prose \o tail : lead \in Leads, tail \in Tails}

\* the chunks printed after the closing fragment of thinking
AfterThinking ==
    LET ends == Indices(out, ThinkingEndHtml)
    IN IF ends = {} THEN <<>> ELSE SubSeq(out, Min(ends) + 1, Len(out))

\* C27: in THINKING, when a code fence comes before "</thinking>", the closing
\* fragment of thinking is emitted exactly once, the text before the fence is
\* the thinking text, and the classifier is back in NORMAL with the fence kept:
\* the fence is read once more, in NORMAL, so that it is neither dropped nor
\* taken twice (what is held and what was printed after the region is the fence
\* and the text behind it, once), and thinking is not entered again.
C27_FenceEndsThinking ==
    (text \in FenceInThinkingTexts /\ pc = "feeding" /\ Delivered(Fence)) =>
        /\ Occurrences(out, ThinkingEndHtml) = 1
        /\ Occurrences(out, ThinkingStartHtml) = 1
        /\ ThinkingPayload = Plan
        /\ state = "NORMAL"
        /\ Payload(AfterThinking) \o buffer =
              SubSeq(text, Find(text, Fence), pos)

\* the text of the thinking region delivered so far
ThinkingDelivered ==
    SubSeq(text, Find(text, ThinkingOpen) + Len(ThinkingOpen), pos)

\* the text printed since the opening fragment of thinking
ThinkingEmitted ==
    LET starts == Indices(out, ThinkingStartHtml)
    IN IF starts = {} THEN <<>> ELSE Payload(SubSeq(out, Min(starts) + 1, Len(out)))

\* C28: in THINKING, after a delta in which no marker was found, the text from
\* the last "<" to the end is held back whenever it is shorter than
\* ThinkingMargin characters and only the text before that "<" has been
\* emitted; otherwise everything has been emitted. What is held is always
\* shorter than ThinkingMargin.
C28_ThinkingHoldBack ==
    (pc = "feeding" /\ state = "THINKING") =>
        LET t == ThinkingDelivered
            last_open == RFind(t, "<")
        IN /\ Len(buffer) < ThinkingMargin
           /\ IF last_open # 0 /\ Len(t) - (last_open - 1) < ThinkingMargin
              THEN /\ buffer = SubSeq(t, last_open, Len(t))
                   /\ ThinkingEmitted = SubSeq(t, 1, last_open - 1)
              ELSE /\ buffer = <<>>
                   /\ ThinkingEmitted = t
\* a "<" that starts no marker is held with the text behind it
C28_Witness ==
    /\ pc = "feeding" /\ state = "THINKING"
    /\ buffer = <<"<", "x", "x">>
    /\ ThinkingEmitted = Plan
\* the same "<" is let go once the text from it is ThinkingMargin characters long
C28_WitnessFlushed ==
    /\ pc = "feeding" /\ state = "THINKING"
    /\ buffer = <<>>
    /\ ThinkingEmitted = Plan \o <<"<">> \o SubSeq(LongProse, 1, ThinkingMargin - 1)

\* C29: bounded buffering: after every delta the classifier holds at most
\* ForceFlushThreshold characters in NORMAL, fewer than ThinkingMargin in
\* THINKING, fewer than ActionMargin in ACTION and none in EXECUTING; in NORMAL
\* a buffer longer than FlushThreshold holds a "<"; and the classifier holds no
\* text but this buffer.
C29_BoundedBuffering ==
    (pc = "feeding") =>
        /\ state = "NORMAL" =>
              /\ Len(buffer) <= ForceFlushThreshold
              /\ Len(buffer) > FlushThreshold => Contains(buffer, <<"<">>)
        /\ state = "THINKING" => Len(buffer) < ThinkingMargin
        /\ state = "ACTION" => Len(buffer) < ActionMargin
        /\ state = "EXECUTING" => buffer = <<>>
        /\ code_buffer = <<>>
\* C29 as amended: the bounds hold for the buffer, which is also empty in
\* CHECKING_CODE; besides it the classifier holds, in CHECKING_CODE only, the
\* lines of the block read so far, as long as none of them is real code.
C29_BoundedRollingBuffer ==
    (pc = "feeding") =>
        /\ state = "NORMAL" =>
              /\ Len(buffer) <= ForceFlushThreshold
              /\ Len(buffer) > FlushThreshold => Contains(buffer, <<"<">>)
        /\ state = "THINKING" => Len(buffer) < ThinkingMargin
        /\ state = "ACTION" => Len(buffer) < ActionMargin
        /\ state = "EXECUTING" => buffer = <<>>
        /\ state = "CHECKING_CODE" => (buffer = <<>> /\ ~HasRealCode(code_buffer))
        /\ state # "CHECKING_CODE" => code_buffer = <<>>
\* a block of comments is held in CHECKING_CODE
C29_Witness ==
    /\ pc = "feeding" /\ state = "CHECKING_CODE"
    /\ buffer = <<>> /\ code_buffer = Newline \o CommentLine
\* NORMAL holds ForceFlushThreshold characters behind a "<"
C29_WitnessHeld ==
    /\ pc = "feeding" /\ state = "NORMAL"
    /\ Len(buffer) = ForceFlushThreshold /\ text = OverlongText
\* and lets them go with the next character
C29_WitnessForced ==
    /\ pc = "feeding" /\ state = "NORMAL" /\ nDeltas = 2
    /\ buffer = <<>> /\ text = OverlongText /\ out = <<OverlongText>>

\* C30: when the stream ends every character the classifier still holds is
\* emitted as literal text, whatever the state it ends in: the text held in the
\* buffer and in the code buffer is the end of what has been printed.
C30_EverythingFlushed ==
    pc = "flushed" => EndsWith(Payload(out), code_buffer \o buffer)

----------------------------------------------------------------------------
(* Properties of the conversation and of the turn budget *)

\* the turns whose assistant message has been appended
RecordedTurns == IF apc \in {"streaming", "failed"} THEN current_turn - 1 ELSE current_turn

IsPrefix(s, t) == Len(s) <= Len(t) /\ SubSeq(t, 1, Len(s)) = s

\* the conversation of a run, turn by turn
ConversationShape ==
    /\ Len(messages) = 2 + 2 * RecordedTurns - (IF apc = "done" THEN 1 ELSE 0)
    /\ messages[1].role = "system" /\ messages[2].role = "user"
    /\ \A t \in 1..RecordedTurns :
          /\ messages[2 * t + 1] = Message("assistant", Content(ScriptResponse(t)))
          /\ HasRegion(ScriptResponse(t)) <=> Len(messages) >= 2 * t + 2
          /\ HasRegion(ScriptResponse(t)) => messages[2 * t + 2].role = "user"
    /\ \A i \in 3..Len(messages) :
          messages[i].role = IF i % 2 = 1 THEN "assistant" ELSE "user"

\* C31: the conversation is append-only and grows in a fixed pattern: every
\* turn appends the whole streamed response as one assistant message, a turn
\* with a tool-call region appends exactly one user message after it (the tool
\* result or the corrective text), no step changes or removes a message that
\* is there, and after the user prompt the roles alternate assistant, user.
C31_ConversationAppendOnly ==
    []ConversationShape /\ [][IsPrefix(messages, messages')]_vars
C31_Witness ==
    /\ Len(messages) >= 6
    /\ messages[4].content = <<<<"Error: Invalid JSON in ARGS.", "">>>>
    /\ messages[6].content[1] = <<"Tool Output:", "read_file">>

RunOver == apc \in {"done", "limit", "failed"}

\* the budget of a run: one model call per turn, at most one execution per turn
BudgetKept ==
    /\ calls = current_turn /\ calls <= max_turns
    /\ Len(execs) <= RecordedTurns /\ Len(execs) <= max_turns
    /\ \A t \in 1..max_turns : Len(ExecsOf(t)) <= 1

\* the steps a run has left at most: the deltas of the open stream, then for
\* every turn left its call, its deltas and its end
LongestStream == Max({Len(r) : r \in RunResponses})
StepsLeft ==
    IF RunOver THEN 0
    ELSE (max_turns - current_turn) * (LongestStream + 2)
            + (IF apc = "streaming" THEN Len(stream) + 2 ELSE 1)

\* C32: whatever the model answers and whatever the tools return, one run makes
\* at most max_turns model calls and at most max_turns tool executions, a turn
\* that ends in a parse error or a tool error counting like any other, and the
\* run terminates: every step leaves fewer steps to take, and a run that is not
\* over is between two turns, where the generator can call the model or leave
\* the loop, or inside a stream, where it can take the next delta or is at the
\* end of the turn, with main waiting for its chunk.
C32_BoundedRun ==
    /\ [](/\ BudgetKept
          /\ ~RunOver =>
                /\ pc = "feeding"
                /\ apc \in {"loop", "streaming"}
                /\ apc = "loop" => ENABLED (CallModel \/ TurnLimit)
                /\ (apc = "streaming" /\ stream # <<>>) => ENABLED StreamDelta)
    /\ [][StepsLeft' < StepsLeft]_vars
\* a run of parse errors and tool errors only, stopped by the budget
C32_Witness ==
    /\ apc = "limit" /\ calls = max_turns /\ Len(script) = 2
    /\ BadJson(1) /\ CallsRaisingTool(2)
    /\ Len(execs) = 5

\* C33: the loop is sequential: one call per turn, and while the stream of a
\* turn is open (its call has been made with the messages as they stand) the
\* stream of every earlier turn has been consumed whole, its assistant message
\* is in the list and, as its response held a tool-call region, the tool has
\* returned and its result or error message is in the list too; no tool of the
\* open turn has run.
C33_TurnsSequential ==
    /\ calls = current_turn
    /\ apc = "streaming" =>
          /\ Len(messages) = 2 * current_turn
          /\ full_response \o SelectSeq(stream, LAMBDA d : d # EmptyDelta)
                = Content(ScriptResponse(current_turn))
          /\ \A i \in 1..Len(execs) : execs[i].turn < current_turn
          /\ \A k \in 1..(current_turn - 1) :
                /\ messages[2 * k + 1] = Message("assistant", Content(ScriptResponse(k)))
                /\ messages[2 * k + 2].role = "user"
                /\ HasRegion(ScriptResponse(k))
                /\ CallsTool(k) =>
                      /\ ExecsOf(k) = <<[turn |-> k, name |-> CalledName(k)]>>
                      /\ messages[2 * k + 2].content[1] = <<"Tool Output:", CalledName(k)>>
C33_Witness ==
    /\ apc = "streaming" /\ current_turn = 3 /\ full_response # <<>> /\ stream # <<>>
    /\ CallsTool(1) /\ BadJson(2)
    /\ Len(messages) = 6

----------------------------------------------------------------------------
(* Properties of the conversation of create_tool *)

\* C34: every failed attempt of create_tool (parse failure or verification
\* failure) appends exactly two messages, the reply as assistant and one
\* corrective user message, so that the list sent with attempt k holds
\* 2 + 2(k-1) messages; when the completion call raises, the error text is
\* returned at once, nothing is appended and no further call is made.
C34_SynthesisConversation ==
    /\ pc \in {"attempting", "returned"} /\ messages # <<>> =>
          /\ Len(messages) = 2 + 2 * attempt
          /\ \A i \in 1..attempt :
                /\ AttemptFails(script[i])
                /\ messages[2 * i + 1] = Message("assistant", <<<<script[i].text, "">>>>)
                /\ messages[2 * i + 2].role = "user"
    /\ pc = "attempting" => calls = attempt
    /\ (pc = "returned" /\ calls >= 1 /\ script[calls].raises) =>
          /\ result = <<"Error calling Code Agent:", script[calls].text>>
          /\ attempt = calls - 1
          /\ Len(messages) = 2 + 2 * (calls - 1)
          /\ ~ENABLED NextSynth
C34_Witness ==
    /\ pc = "returned" /\ calls = 3 /\ script[3].raises
    /\ FailsParsing(script[1]) /\ FailsVerification(script[2])
    /\ Len(messages) = 6

----------------------------------------------------------------------------
(* Properties of the classifier: the loop, the fragments, plain text *)

\* what a pass of the loop has left to work on: the buffer, and the passes
\* that may follow without taking a character from it (THINKING hands a fence
\* to NORMAL, CHECKING_CODE hands over to EXECUTING)
PassRank(c) ==
    3 * Len(c.buffer)
        + (IF c.state = "THINKING" THEN 2 ELSE IF c.state = "CHECKING_CODE" THEN 1 ELSE 0)

\* C35: processing a delta terminates: whatever delta comes next, the loop
\* makes finitely many passes, at most one more than the buffer has characters
\* and one per state left, because every pass that continues leaves less to
\* work on: it takes at least one character from the buffer or moves to a
\* state from which no pass leads back without taking one.
C35_LoopTerminates ==
    \A k \in NextDeltas :
        LET passes == Passes([Classifier EXCEPT !.buffer = @ \o SubSeq(text, pos + 1, pos + k)])
        IN /\ Len(passes) <= Len(buffer) + k + 3
           /\ ~passes[Len(passes)].again
           /\ \A i \in 2..(Len(passes) - 1) :
                 passes[i].again /\ PassRank(passes[i]) < PassRank(passes[i - 1])
\* a delta that takes the loop through four states: NORMAL, THINKING, ACTION,
\* NORMAL again
C35_Witness ==
    /\ text = ThinkingOpen \o Plan \o ActionOpen \o Prose \o ActionClose \o Prose
    /\ nDeltas = 1 /\ pos = Len(text)
    /\ state = "NORMAL" /\ Len(Passes([InitialClassifier EXCEPT !.buffer = text])) = 5

\* the chunks of o that are one of the two literals, in order
MarkersOf(o, start, end) == SelectSeq(o, LAMBDA chunk : chunk \in {start, end})

\* start and end take turns in o, start first
Alternate(o, start, end) ==
    LET marks == MarkersOf(o, start, end)
    IN \A i \in 1..Len(marks) : marks[i] = (IF i % 2 = 1 THEN start ELSE end)

\* the last of the two literals in o is start: the region is open
RegionOpen(o, start, end) == Len(MarkersOf(o, start, end)) % 2 = 1

\* the regions of the output agree with the state the classifier is in
RegionsMatchState(c) ==
    /\ Alternate(c.out, ThinkingStartHtml, ThinkingEndHtml)
    /\ Alternate(c.out, CodeStartHtml, CodeEndHtml)
    /\ RegionOpen(c.out, ThinkingStartHtml, ThinkingEndHtml) <=> c.state = "THINKING"
    /\ RegionOpen(c.out, CodeStartHtml, CodeEndHtml) <=> c.state = "EXECUTING"

\* what a pass has printed
PrintedBy(before, after) == SubSeq(after.out, Len(before.out) + 1, Len(after.out))

\* C36: the regions of the output are well nested for every response and every
\* chunking: the thinking header and footer take turns, header first, and so do
\* the code header and footer; the thinking region is open exactly while the
\* classifier is in THINKING and the code region exactly while it is in
\* EXECUTING, after every pass of the loop, so that code is printed inside a
\* code region only and other text outside; a block that CHECKING_CODE hands
\* over early to EXECUTING gets one header, printed at the hand-over.
C36_RegionsWellNested ==
    /\ RegionsMatchState(Classifier)
    /\ \A k \in NextDeltas :
          LET passes == Passes([Classifier EXCEPT !.buffer = @ \o SubSeq(text, pos + 1, pos + k)])
          IN \A i \in 2..Len(passes) :
                LET before == passes[i - 1]
                    after == passes[i]
                    printed == PrintedBy(before, after)
                IN /\ RegionsMatchState(after)
                   /\ before.state = "CHECKING_CODE" =>
                         \/ printed = <<>>
                         \/ /\ Len(printed) \in {2, 3}
                            /\ printed[1] = CodeStartHtml
                            /\ printed[2] \notin MarkerHtml /\ HasRealCode(printed[2])
                            /\ Len(printed) = 3 => printed[3] = CodeEndHtml
                            /\ Len(printed) = 2 <=> after.state = "EXECUTING"
                   /\ before.state = "EXECUTING" =>
                         \A j \in 1..Len(printed) : printed[j] # CodeStartHtml
                   /\ before.state \notin {"CHECKING_CODE", "EXECUTING"} =>
                         \A j \in 1..Len(printed) :
                             printed[j] \notin {CodeStartHtml, CodeEndHtml}
\* a block handed over early to EXECUTING in the first delta and closed in the
\* second
C36_Witness ==
    /\ nDeltas = 2 /\ pos = Len(text) /\ state = "ACTION"
    /\ Len(MarkersOf(out, CodeStartHtml, CodeEndHtml)) = 2
    /\ \E i, j \in 1..Len(out) :
          out[i] = CodeStartHtml /\ out[j] = CodeEndHtml /\ j >= i + 3

\* C37: plain text passes through: for a text that holds none of the three
\* opening markers, in every chunking, the classifier stays in NORMAL, prints
\* no header or footer, what it has printed and what it still holds is the
\* text read so far, and once the stream has ended the chunks printed, put
\* together, are the text exactly.
C37_ProsePassThrough ==
    ~HasOpener(text) =>
        /\ state = "NORMAL" /\ code_buffer = <<>>
        /\ \A i \in 1..Len(out) : out[i] \notin MarkerHtml
        /\ pc = "feeding" => Payload(out) \o buffer = SubSeq(text, 1, pos)
        /\ pc = "flushed" => Payload(out) = text
\* a text with a cut-short opener between two runs of prose, part printed
\* during the stream and the rest at its end
C37_Witness ==
    /\ pc = "flushed" /\ nDeltas = 2
    /\ text = LongProse \o SubSeq(FenceOpen, 1, Len(FenceOpen) - 1) \o Prose
    /\ Len(out) = 2 /\ out[1] \o out[2] = text

\* C38: no chunk of text or code is printed empty, in any state and for any
\* chunking: not when a delta ends right after an opening marker, and not when
\* CHECKING_CODE hands over to EXECUTING with nothing left in the buffer.
C38_NoEmptyFragment == \A i \in 1..Len(out) : out[i] # <<>>

----------------------------------------------------------------------------
(* Properties of a repeated registration *)

\* C39: registering a name again replaces its tool whole: whatever the tool
\* under that name was, hidden by set_visibility or not, after register_tool
\* the registry holds under the name exactly the new function, its
\* description and its level, visible, so that the tool is among the visible
\* tools, the ones the catalogue is exported from; no field of the tool
\* replaced is left, and the tools under other names are untouched.
C39_ReregistrationReplaces ==
    [][\A f \in Funcs, level \in Levels :
          RegisterTool(f, level) =>
              /\ DOMAIN registry' = DOMAIN registry \cup {f.name}
              /\ registry'[f.name] =
                    [name |-> f.name, description |-> f.doc, func |-> f,
                     permission_level |-> level, is_visible |-> TRUE]
              /\ f.name \in DOMAIN GetVisibleTools(registry')
              /\ GetVisibleTools(registry')[f.name] = registry'[f.name]
              /\ \A n \in DOMAIN registry \ {f.name} : registry'[n] = registry[n]
      ]_vars
\* a tool that was hidden when it was last called has since been registered
\* again with another function, description and level, and is visible
C39_Witness ==
    /\ called # NoCall /\ called.tool # NoTool /\ ~called.tool.is_visible
    /\ called.name \in DOMAIN GetVisibleTools(registry)
    /\ registry[called.name].func # called.tool.func
    /\ registry[called.name].description # called.tool.description
    /\ registry[called.name].permission_level # called.tool.permission_level
    /\ registry[called.name].func = last_registered[called.name].func

----------------------------------------------------------------------------
(* tools.py: get_workspace_content_index *)

\* the files of the workspace, and the workers of the executor
MaxFiles == 7
max_workers == 5

Path(i) == "file" \o ToString(i)

\* the files os.walk yields: the second cannot be opened, the third holds a
\* NUL byte, the fourth cannot be read as text, the model call fails for the
\* last; every file has the hash of its present content
WorkspaceFiles ==
    [i \in 1..MaxFiles |->
        [path |-> Path(i), hash |-> "present", readable |-> i # 2,
         binary |-> i = 3, decodable |-> i # 4, model_raises |-> i = MaxFiles]]

NoEntry == [absent |-> TRUE]
StoredEntry(path, hash) ==
    [hash |-> hash, path |-> path, description |-> <<"stored", path>>,
     last_modified |-> "then"]

EmptyIndex == [p \in {} |-> NoEntry]
\* an index with the first file as it is, the fifth as it was and a file that
\* is gone
StaleIndex ==
    [p \in {Path(0), Path(1), Path(5)} |->
        StoredEntry(p, IF p = Path(1) THEN "present" ELSE "past")]
\* an index with every file as it is
FreshIndex == [p \in {Path(i) : i \in 1..MaxFiles} |-> StoredEntry(p, "present")]
StoredIndexes == {EmptyIndex, StaleIndex, FreshIndex}

\* new_index[rel_path] = entry
WithEntry(index, path, entry) ==
    [p \in DOMAIN index \cup {path} |-> IF p = path THEN entry ELSE index[p]]

\* the "Check if changed" test of the scan
IsUnchanged(f, index) == f.path \in DOMAIN index /\ index[f.path].hash = f.hash

\* step 1, "Scan and Calculate Hash", over the files from the i-th on
RECURSIVE ScanFiles(_, _, _, _)
ScanFiles(files, i, index, acc) ==
    IF i > Len(files) THEN acc
    ELSE LET f == files[i]
         IN IF ~f.readable THEN ScanFiles(files, i + 1, index, acc)
            ELSE IF IsUnchanged(f, index)
            THEN ScanFiles(files, i + 1, index,
                           [acc EXCEPT !.new_index = WithEntry(@, f.path, index[f.path])])
            ELSE ScanFiles(files, i + 1, index,
                           [acc EXCEPT !.files_to_process = Append(@, f)])

\* process_file_item: whether it calls the model, and the entry it returns
CallsModel(f) == ~f.binary /\ f.decodable
ProcessFileItem(f) ==
    IF f.binary
    THEN [hash |-> f.hash, path |-> f.path, description |-> <<"[Binary File]">>,
          last_modified |-> "none"]
    ELSE IF ~f.decodable
    THEN [hash |-> f.hash, path |-> f.path,
          description |-> <<"Error reading file:", f.path>>, last_modified |-> "none"]
    ELSE [hash |-> f.hash, path |-> f.path,
          description |-> IF f.model_raises
                          THEN <<"Error generating description:", f.path>>
                          ELSE <<"described", f.path>>,
          last_modified |-> "now"]

\* the index without its hashes
SanitizedIndex(index) ==
    [p \in DOMAIN index |->
        [path |-> index[p].path, description |-> index[p].description,
         last_modified |-> index[p].last_modified]]

Running == {i \in 1..Len(futures) : futures[i].status = "running"}

indexFrame == <<clsFrame, agentVars, registry, called, ran, last_registered,
                attempt, last_error, tools_tmp>>

InitIndex ==
    /\ workspace = WorkspaceFiles
    /\ index_file \in StoredIndexes
    /\ llm_config \in BOOLEAN
    /\ old_index = EmptyIndex /\ new_index = EmptyIndex
    /\ files_to_process = <<>> /\ futures = <<>> /\ completed = {}
    /\ updated_count = 0 /\ model_calls = <<>>
    /\ attempt = 0 /\ last_error = "None" /\ tools_tmp = <<>>
    /\ registry = EmptyRegistry /\ last_registered = EmptyRegistry
    /\ called = NoCall /\ ran = <<>> /\ result = <<>>
    /\ text = <<>> /\ pos = 0 /\ nDeltas = 0 /\ cuts = <<>>
    /\ state = "NORMAL" /\ buffer = <<>> /\ code_buffer = <<>> /\ out = <<>>
    /\ pc = "idle"
    /\ AgentIdle

\* the calling thread loads the stored index and scans the workspace; without
\* LLM_CONFIG it returns, with nothing to process it goes on to save
ScanWorkspace ==
    /\ pc = "idle"
    /\ LET scanned == ScanFiles(workspace, 1, index_file,
                                [new_index |-> EmptyIndex, files_to_process |-> <<>>])
       IN /\ old_index' = index_file
          /\ new_index' = scanned.new_index
          /\ files_to_process' = scanned.files_to_process
          /\ IF ~llm_config
             THEN /\ result' = <<"Error: LLM configuration not set.">>
                  /\ pc' = "failed"
             ELSE /\ pc' = IF scanned.files_to_process = <<>> THEN "merging" ELSE "submitting"
                  /\ UNCHANGED result
    /\ UNCHANGED <<workspace, index_file, llm_config, futures, completed,
                   updated_count, model_calls, indexFrame>>

\* the calling thread submits the next item to the executor
Submit ==
    /\ pc = "submitting"
    /\ futures' = Append(futures, [status |-> "pending", result |-> NoEntry])
    /\ pc' = IF Len(futures') = Len(files_to_process) THEN "merging" ELSE "submitting"
    /\ UNCHANGED <<workspace, index_file, llm_config, old_index, new_index,
                   files_to_process, completed, updated_count, model_calls,
                   result, indexFrame>>

\* a worker of the pool takes the item that has waited longest
WorkerStart(i) ==
    /\ i \in 1..Len(futures)
    /\ futures[i].status = "pending"
    /\ \A j \in 1..(i - 1) : futures[j].status # "pending"
    /\ Cardinality(Running) < max_workers
    /\ futures' = [futures EXCEPT ![i].status = "running"]
    /\ UNCHANGED <<workspace, index_file, llm_config, old_index, new_index,
                   files_to_process, completed, updated_count, model_calls,
                   result, pc, indexFrame>>

\* a worker returns from process_file_item
WorkerFinish(i) ==
    /\ i \in 1..Len(futures)
    /\ futures[i].status = "running"
    /\ futures' = [futures EXCEPT ![i] = [status |-> "done",
                                          result |-> ProcessFileItem(files_to_process[i])]]
    /\ model_calls' = IF CallsModel(files_to_process[i])
                      THEN Append(model_calls, files_to_process[i].path)
                      ELSE model_calls
    /\ UNCHANGED <<workspace, index_file, llm_config, old_index, new_index,
                   files_to_process, completed, updated_count,
                   result, pc, indexFrame>>

\* the calling thread gets a finished future from as_completed and files its
\* result
MergeResult(i) ==
    /\ pc = "merging"
    /\ i \in 1..Len(futures) /\ i \notin completed
    /\ futures[i].status = "done"
    /\ new_index' = WithEntry(new_index, futures[i].result.path, futures[i].result)
    /\ updated_count' = updated_count + 1
    /\ completed' = completed \cup {i}
    /\ UNCHANGED <<workspace, index_file, llm_config, old_index, files_to_process,
                   futures, model_calls, result, pc, indexFrame>>

\* a return that does not wait for the futures still out
ReturnIndexEarly(saved) ==
    /\ pc = "merging"
    /\ index_file' = IF saved THEN new_index ELSE index_file
    /\ IF saved
       THEN result' = SanitizedIndex(new_index) /\ pc' = "returned"
       ELSE result' = <<"Error saving index:">> /\ pc' = "failed"
    /\ UNCHANGED <<workspace, llm_config, old_index, new_index, files_to_process,
                   futures, completed, updated_count, model_calls, indexFrame>>

\* as_completed is exhausted and the executor shut down: the index is saved
\* and returned without its hashes, or the error of the save is returned
ReturnIndex(saved) ==
    /\ pc = "merging"
    /\ completed = 1..Len(files_to_process)
    /\ index_file' = IF saved THEN new_index ELSE index_file
    /\ IF saved
       THEN result' = SanitizedIndex(new_index) /\ pc' = "returned"
       ELSE result' = <<"Error saving index:">> /\ pc' = "failed"
    /\ UNCHANGED <<workspace, llm_config, old_index, new_index, files_to_process,
                   futures, completed, updated_count, model_calls, indexFrame>>

NextIndex ==
    \/ ScanWorkspace
    \/ Submit
    \/ \E i \in 1..MaxFiles : WorkerStart(i)
    \/ \E i \in 1..MaxFiles : WorkerFinish(i)
    \/ \E i \in 1..MaxFiles : MergeResult(i)
    \/ \E saved \in BOOLEAN : ReturnIndex(saved)
SpecIndex == InitIndex /\ [][NextIndex]_vars

\* the files the scan has read and hashed
HashedFiles == {i \in 1..Len(workspace) : workspace[i].readable}

\* C40: the changed files go to a pool of at most max_workers workers and the
\* calling thread alone files the results: never more than max_workers items
\* are being processed, no step of a worker changes the index, and in
\* whatever order the workers finish, the index returned has one entry for
\* each file scanned and for no other path: the stored entry, without a model
\* call, for a file whose hash is the stored one, and the entry process_file_item
\* computes for any other, with one model call at most; it is returned when
\* every future is done and filed.
C40_IndexFanOut ==
    /\ [](/\ Cardinality(Running) <= max_workers
          /\ pc = "returned" =>
                /\ DOMAIN result = {workspace[i].path : i \in HashedFiles}
                /\ \A i \in HashedFiles :
                      LET f == workspace[i]
                          called_for == {k \in 1..Len(model_calls) : model_calls[k] = f.path}
                      IN IF IsUnchanged(f, old_index)
                         THEN /\ result[f.path] = SanitizedIndex(old_index)[f.path]
                              /\ called_for = {}
                         ELSE /\ result[f.path] = SanitizedIndex(WithEntry(EmptyIndex, f.path, ProcessFileItem(f)))[f.path]
                              /\ Cardinality(called_for) = (IF CallsModel(f) THEN 1 ELSE 0)
                /\ Len(futures) = Len(files_to_process)
                /\ \A i \in 1..Len(futures) : futures[i].status = "done" /\ i \in completed
                /\ updated_count = Len(files_to_process))
    /\ [][(\E i \in 1..MaxFiles : WorkerStart(i) \/ WorkerFinish(i)) =>
              (new_index' = new_index /\ pc' = pc /\ result' = result)]_vars
\* six changed files, one more than the pool takes: the last to be submitted
\* is the first whose model call is made, and the index is returned
C40_Witness ==
    /\ pc = "returned" /\ old_index = EmptyIndex
    /\ Len(files_to_process) = max_workers + 1
    /\ Len(model_calls) = 4
    /\ model_calls[1] = Path(MaxFiles) /\ model_calls[4] = Path(1)

====
